---- MODULE Spec2Model ----
(***************************************************************************)
(* Template layout subsystem of recipe-archive: boundary clamping, overlap *)
(* detection, overflow estimation, the template mutation API, the template *)
(* storage adapter and the WYSIWYG template editor.                        *)
(*                                                                         *)
(* Percent-space numbers are fixed-point integers counting 1/Scale of a    *)
(* percent, so that fractional positions and sizes occur.                  *)
(***************************************************************************)
EXTENDS Integers, Sequences, FiniteSets, TLC

\* ---------------------------------------------------------------- bounds
\* grid units per percent (1 unit = 1/Scale %)
Scale == 2

\* the card is 100% wide and high
Full == 100 * Scale
\* the 1% size floor of constrainSectionToBoundaries
MinSize == 1 * Scale

Null == "null"

Max(a, b) == IF a > b THEN a ELSE b
Min(a, b) == IF a < b THEN a ELSE b

\* ------------------------------------------------------- template sections
defaultSectionStyle == [fontSize |-> 12, padding |-> 4]

createSection(id, type, x, y, width, height, zIndex) ==
  [id |-> id, type |-> type,
   position |-> [x |-> x, y |-> y],
   size |-> [width |-> width, height |-> height],
   style |-> defaultSectionStyle,
   zIndex |-> zIndex]

\* mutant: the size is clamped against the original, unclamped position
constrainSizeFromOriginalPosition(section) ==
  [section EXCEPT
     !.position = [x |-> Max(0, Min(Full - section.size.width, section.position.x)),
                   y |-> Max(0, Min(Full - section.size.height, section.position.y))],
     !.size = [width  |-> Max(MinSize, Min(Full - section.position.x, section.size.width)),
               height |-> Max(MinSize, Min(Full - section.position.y, section.size.height))]]

constrainSectionToBoundaries(section) ==
  LET position == [x |-> Max(0, Min(Full - section.size.width, section.position.x)),
                   y |-> Max(0, Min(Full - section.size.height, section.position.y))]
      size == [width  |-> Max(MinSize, Min(Full - position.x, section.size.width)),
               height |-> Max(MinSize, Min(Full - position.y, section.size.height))]
  IN [section EXCEPT !.position = position, !.size = size]

validateSectionBoundaries(section) ==
  /\ ~(section.position.x < 0 \/ section.position.x > Full
        \/ section.position.y < 0 \/ section.position.y > Full)
  /\ ~(section.size.width < 0 \/ section.size.width > Full
        \/ section.size.height < 0 \/ section.size.height > Full)
  /\ ~(section.position.x + section.size.width > Full
        \/ section.position.y + section.size.height > Full)

\* ------------------------------------------------------------------ state
VARIABLES
  cpc,            \* clamp run: "input", "once" or "twice"
  section,        \* clamp run: the section handed to constrainSectionToBoundaries
  constrained,    \* clamp run: result of the first call
  reconstrained   \* clamp run: result of the call on the first result

clampVars == <<cpc, section, constrained, reconstrained>>

VARIABLES
  templates,      \* LocalStorageAdapter.templates: the Map, in insertion order
  initialized,    \* LocalStorageAdapter.initialized
  localStorage,   \* localStorage[TEMPLATES_KEY]: <<>> (no item) or <<array>>
  now,            \* the clock read by new Date()
  call,           \* the last adapter call and its arguments
  result,         \* its outcome: a value or a thrown error
  everDefault     \* history: ids ever stored with isDefault = true

storeVars == <<templates, initialized, localStorage, now, call, result, everDefault>>

VARIABLES
  template,       \* the template under analysis / the editor's template state
  overlaps,       \* the SectionOverlap[] computed from template
  opc             \* detector run: "input" or "done"

overlapVars == <<template, overlaps, opc>>

VARIABLES
  recipe,         \* the recipe handed to detectOverflow
  overflow,       \* the OverflowDetectionResult
  fpc             \* overflow run: "input" or "done"

overflowVars == <<recipe, overflow, fpc>>

VARIABLES
  selectedSectionId,  \* TemplateEditor state: <<>> (null) or <<id>>
  dragState,          \* TemplateEditor state: <<>> (null) or <<DragState>>
  generated,          \* how many ids generateId has handed out
  drags               \* how many drags have been started

editorVars == <<selectedSectionId, dragState, generated, drags>>

VARIABLES
  heap,           \* the objects allocated so far; a reference is an index
  current,        \* reference of the template the caller holds
  input,          \* reference handed to the last mutation call
  output,         \* reference the last mutation call returned
  mcall,          \* the last mutation call and its arguments
  calls           \* how many mutation calls were made

mutationVars == <<heap, current, input, output, mcall, calls>>

VARIABLES
  idb,            \* IndexedDB object store 'templates', in key order
  pageTemplates,  \* TemplateManagerPage: templates
  loading,        \* TemplateManagerPage: loading
  error,          \* TemplateManagerPage: error, <<>> for null
  lpc,            \* loadTemplates: where the running call stands
  loadedTemplates,\* loadTemplates: its local loadedTemplates
  defaults        \* loadTemplates: the defaults still to be stored

pageVars == <<idb, pageTemplates, loading, error, lpc, loadedTemplates, defaults>>

VARIABLES
  viewMode,       \* TemplateManagerPage: viewMode ("list", "edit", "create")
  saved,          \* the argument of the last onSave call, <<>> before any
  deleted         \* the template of the last onDelete call, <<>> before any

managerVars == <<viewMode, saved, deleted>>

VARIABLES
  collection,       \* the Collection the caller holds
  previous,         \* the Collection handed to the last collection call
  ccall,            \* the last collection call and its recipe id
  collectionClock,  \* the clock read by new Date() in the collection calls
  collectionCalls   \* how many add / remove calls were made

collectionVars == <<collection, previous, ccall, collectionClock, collectionCalls>>

VARIABLES
  idbResult       \* outcome of the last IndexedDBStorageAdapter call

adapterVars == <<idbResult>>

VARIABLES
  previewTemplates,   \* PrintPreview props: templates
  previewRecipe,      \* PrintPreview props: recipe
  selectedTemplateId, \* PrintPreview state, "" before a selection
  selectedSizeKey,    \* PrintPreview state, "" before a selection
  overflowResult,     \* PrintPreview state: <<>> (null) or <<result>>
  isExporting,        \* PrintPreview state
  exportError,        \* PrintPreview state: <<>> (null) or <<message>>
  ppc                 \* PrintPreview: "closed", "new", "mounted", or the
                      \* handler waiting on its adapter

previewVars == <<previewTemplates, previewRecipe, selectedTemplateId, selectedSizeKey,
                 overflowResult, isExporting, exportError, ppc>>

\* TemplateManagerPage instances open on one database (two tabs, or a page
\* mounted again while the load of the unmounted one is still running): per
\* instance the position of its loadTemplates call, the call's locals and the
\* component state it sets
VARIABLES
  pages
raceVars == <<pages>>

vars == <<clampVars, storeVars, overlapVars, overflowVars, editorVars, mutationVars, pageVars, managerVars, collectionVars, adapterVars, previewVars, raceVars>>

\* what the steps of one subsystem leave alone
clampFrame == <<storeVars, overlapVars, overflowVars, editorVars, mutationVars, pageVars, managerVars, collectionVars, adapterVars, previewVars, raceVars>>
storeFrame == <<clampVars, overlapVars, overflowVars, editorVars, mutationVars, pageVars, managerVars, collectionVars, adapterVars, previewVars, raceVars>>
overlapFrame == <<clampVars, storeVars, overflowVars, editorVars, mutationVars, pageVars, managerVars, collectionVars, adapterVars, previewVars, raceVars>>
overflowFrame == <<clampVars, storeVars, overlapVars, editorVars, mutationVars, pageVars, managerVars, collectionVars, adapterVars, previewVars, raceVars>>
editorFrame == <<clampVars, storeVars, overflowVars, mutationVars, pageVars, managerVars, collectionVars, adapterVars, previewVars, raceVars>>
mutationFrame == <<clampVars, overlapVars, overflowVars,
                   templates, initialized, localStorage, call, result, everDefault,
                   selectedSectionId, dragState, drags, pageVars, managerVars, collectionVars, adapterVars, previewVars, raceVars>>
pageFrame == <<clampVars, storeVars, overlapVars, overflowVars, editorVars, mutationVars, managerVars, collectionVars, adapterVars, previewVars, raceVars>>
managerFrame == <<clampVars, storeVars, overflowVars, mutationVars, collectionVars, adapterVars, previewVars, raceVars>>
collectionFrame == <<clampVars, storeVars, overlapVars, overflowVars, editorVars, mutationVars, pageVars, managerVars, adapterVars, previewVars, raceVars>>
adaptersFrame == <<clampVars, overlapVars, overflowVars, editorVars, mutationVars, pageTemplates, loading, error, lpc, loadedTemplates, defaults, managerVars, collectionVars, previewVars, raceVars>>
previewFrame == <<clampVars, storeVars, overlapVars, overflowVars, editorVars, mutationVars, pageVars, managerVars, collectionVars, adapterVars, raceVars>>
raceFrame == <<clampVars, storeVars, overlapVars, overflowVars, editorVars, mutationVars, pageTemplates, loading, error, lpc, loadedTemplates, defaults, managerVars, collectionVars, adapterVars, previewVars>>

\* ------------------------------------------------- boundary constraint run
\* position inputs: negative, zero, fractional, inside, on the edge, beyond
PositionInputs == {-10 * Scale, 0, 1, 50 * Scale, 90 * Scale, 99 * Scale + 1,
                   Full, 110 * Scale}
\* size inputs: negative, zero, fractional, the floor, ordinary, full, beyond
SizeInputs == {-10 * Scale, 0, 1, MinSize, 30 * Scale, Full, 150 * Scale}

ClampInit ==
  /\ cpc = "input"
  /\ \E x \in PositionInputs, y \in {0, 90 * Scale, Full},
        w \in SizeInputs, h \in {0, 30 * Scale} :
       section = createSection("s1", "title", x, y, w, h, 1)
  /\ constrained = Null
  /\ reconstrained = Null

ClampIdle ==
  /\ cpc = "idle"
  /\ section = Null
  /\ constrained = Null
  /\ reconstrained = Null

Constrain ==
  /\ cpc = "input"
  /\ constrained' = constrainSectionToBoundaries(section)
  /\ cpc' = "once"
  /\ UNCHANGED <<section, reconstrained>>
  /\ UNCHANGED clampFrame

ConstrainAgain ==
  /\ cpc = "once"
  /\ reconstrained' = constrainSectionToBoundaries(constrained)
  /\ cpc' = "twice"
  /\ UNCHANGED <<section, constrained>>
  /\ UNCHANGED clampFrame

ClampNext == Constrain \/ ConstrainAgain


\* ------------------------------------------------ LocalStorageAdapter store
\* latest clock value
MaxClock == 2

TemplateIds == {"default-a5", "t1"}
TemplateNames == {"Default A5", "Mine"}

CannotDeleteDefault == "Cannot delete default template"
TemplateNotFound == "Template not found"

margins10 == [top |-> 10, right |-> 10, bottom |-> 10, left |-> 10]

Template(id, name, size, isDefault, sections, t) ==
  [id |-> id, name |-> name, size |-> size, isDefault |-> isDefault,
   sections |-> sections, margins |-> margins10, createdAt |-> t, updatedAt |-> t]

newTemplate(id, name, isDefault, t) == Template(id, name, "a5", isDefault, <<>>, t)

\* Map.prototype.get(id) || null, the absent value written <<>>
MapHas(m, id) == \E i \in 1..Len(m) : m[i].id = id
MapGet(m, id) == LET i == CHOOSE i \in 1..Len(m) : m[i].id = id IN m[i]
\* Map.prototype.set: an existing key keeps its place, a new key goes last
MapSet(m, t) ==
  IF MapHas(m, t.id)
  THEN [i \in 1..Len(m) |-> IF m[i].id = t.id THEN t ELSE m[i]]
  ELSE Append(m, t)
\* Map.prototype.delete
MapDelete(m, id) == SelectSeq(m, LAMBDA t : t.id # id)

RECURSIVE MapSetAll(_, _)
MapSetAll(m, ts) ==
  IF ts = <<>> THEN m ELSE MapSetAll(MapSet(m, Head(ts)), Tail(ts))

\* init(): the first call loads the array saved under TEMPLATES_KEY
init ==
  IF initialized THEN templates
  ELSE IF localStorage = <<>> THEN templates
  ELSE MapSetAll(templates, localStorage[1])

\* persistTemplates(): JSON of Array.from(this.templates.values())
persistTemplates(m) == <<m>>

\* object spread {...existing, ...updates}
Spread(a, b) ==
  [f \in DOMAIN a \cup DOMAIN b |-> IF f \in DOMAIN b THEN b[f] ELSE a[f]]

Returned(v) == [kind |-> "value", value |-> v, error |-> ""]
Thrown(msg) == [kind |-> "error", value |-> <<>>, error |-> msg]

getTemplate(m, id) == IF MapHas(m, id) THEN <<MapGet(m, id)>> ELSE <<>>

createTemplate(t) ==
  /\ templates' = MapSet(init, t)
  /\ localStorage' = persistTemplates(templates')
  /\ initialized' = TRUE
  /\ call' = [op |-> "createTemplate", id |-> t.id]
  /\ result' = Returned(<<t>>)
  /\ UNCHANGED now

GetTemplate(id) ==
  /\ templates' = init
  /\ initialized' = TRUE
  /\ call' = [op |-> "getTemplate", id |-> id]
  /\ result' = Returned(getTemplate(templates', id))
  /\ UNCHANGED <<localStorage, now>>

updateTemplate(id, updates) ==
  LET m == init IN
  /\ initialized' = TRUE
  /\ call' = [op |-> "updateTemplate", id |-> id]
  /\ IF ~MapHas(m, id)
     THEN /\ result' = Thrown(TemplateNotFound)
          /\ templates' = m
          /\ UNCHANGED localStorage
     ELSE LET updated == [Spread(MapGet(m, id), updates)
                            EXCEPT !.id = id, !.updatedAt = now]
          IN /\ templates' = MapSet(m, updated)
             /\ localStorage' = persistTemplates(templates')
             /\ result' = Returned(<<updated>>)
  /\ UNCHANGED now

\* mutant: the isDefault guard is missing
deleteTemplateUnguarded(id) ==
  /\ initialized' = TRUE
  /\ call' = [op |-> "deleteTemplate", id |-> id]
  /\ templates' = MapDelete(init, id)
  /\ localStorage' = persistTemplates(templates')
  /\ result' = Returned(<<>>)
  /\ UNCHANGED now

deleteTemplate(id) ==
  LET m == init IN
  /\ initialized' = TRUE
  /\ call' = [op |-> "deleteTemplate", id |-> id]
  /\ IF MapHas(m, id) /\ MapGet(m, id).isDefault
     THEN /\ result' = Thrown(CannotDeleteDefault)
          /\ templates' = m
          /\ UNCHANGED localStorage
     ELSE /\ templates' = MapDelete(m, id)
          /\ localStorage' = persistTemplates(templates')
          /\ result' = Returned(<<>>)
  /\ UNCHANGED now

listTemplates ==
  /\ templates' = init
  /\ initialized' = TRUE
  /\ call' = [op |-> "listTemplates", id |-> ""]
  /\ result' = Returned(templates')
  /\ UNCHANGED <<localStorage, now>>

importAll(data) ==
  /\ templates' = MapSetAll(init, data)
  /\ localStorage' = persistTemplates(templates')
  /\ initialized' = TRUE
  /\ call' = [op |-> "importAll", id |-> ""]
  /\ result' = Returned(<<>>)
  /\ UNCHANGED now

\* ids of the stored templates whose isDefault is true
DefaultIds(m) == {m[i].id : i \in {j \in 1..Len(m) : m[j].isDefault}}

\* history of the ids stored as default, extended after every adapter call
Remember == everDefault' = everDefault \cup DefaultIds(templates')

Tick ==
  /\ now < MaxClock
  /\ now' = now + 1
  /\ UNCHANGED <<templates, initialized, localStorage, call, result, everDefault>>
  /\ UNCHANGED storeFrame

TemplateInputs ==
  {newTemplate(id, name, isDefault, now) :
     id \in TemplateIds, name \in TemplateNames, isDefault \in BOOLEAN}

UpdateInputs ==
  {<<>>} \cup {[name |-> n] : n \in TemplateNames}
         \cup {[isDefault |-> b] : b \in BOOLEAN}
         \cup {[id |-> i] : i \in TemplateIds}

\* what an earlier session left under TEMPLATES_KEY
SavedInputs ==
  {<<>>, <<<<newTemplate("default-a5", "Default A5", TRUE, 0)>>>>,
   <<<<newTemplate("t1", "Mine", FALSE, 0),
       newTemplate("default-a5", "Default A5", TRUE, 0)>>>>}

StoreInit ==
  /\ templates = <<>>
  /\ initialized = FALSE
  /\ localStorage \in SavedInputs
  /\ now = 0
  /\ call = [op |-> "none", id |-> ""]
  /\ result = Returned(<<>>)
  /\ everDefault = DefaultIds(init)

StoreIdle ==
  /\ templates = <<>>
  /\ initialized = FALSE
  /\ localStorage = <<>>
  /\ now = 0
  /\ call = [op |-> "none", id |-> ""]
  /\ result = Returned(<<>>)
  /\ everDefault = {}

CreateTemplate ==
  /\ \E t \in TemplateInputs : createTemplate(t)
  /\ Remember
  /\ UNCHANGED storeFrame

GetTemplateCall ==
  /\ \E id \in TemplateIds : GetTemplate(id)
  /\ Remember
  /\ UNCHANGED storeFrame

UpdateTemplate ==
  /\ \E id \in TemplateIds, u \in UpdateInputs : updateTemplate(id, u)
  /\ Remember
  /\ UNCHANGED storeFrame

DeleteTemplate ==
  /\ \E id \in TemplateIds : deleteTemplate(id)
  /\ Remember
  /\ UNCHANGED storeFrame

ListTemplates ==
  /\ listTemplates
  /\ Remember
  /\ UNCHANGED storeFrame

ImportAll ==
  /\ \E data \in {<<t>> : t \in TemplateInputs}
                  \cup {<<t, u>> : t \in {x \in TemplateInputs : x.id = "t1"},
                                   u \in {x \in TemplateInputs : x.id = "default-a5"}} :
       importAll(data)
  /\ Remember
  /\ UNCHANGED storeFrame

StoreNext ==
  \/ CreateTemplate
  \/ GetTemplateCall
  \/ UpdateTemplate
  \/ DeleteTemplate
  \/ ListTemplates
  \/ ImportAll
  \/ Tick


\* --------------------------------------------------------- overlap detector
\* most sections in a template handed to the detectors
MaxSections == 3

\* a JS number that is a quotient, kept exact: num / den with den > 0
Number(num, den) == [num |-> num, den |-> den]
Zero == Number(0, 1)

Rect(s) ==
  [left |-> s.position.x, right |-> s.position.x + s.size.width,
   top |-> s.position.y, bottom |-> s.position.y + s.size.height]

\* mutant: touching edges are taken for an overlap (< for <=)
sectionsOverlapStrict(s1, s2) ==
  LET r1 == Rect(s1)
      r2 == Rect(s2)
  IN ~(r1.right < r2.left \/ r2.right < r1.left
        \/ r1.bottom < r2.top \/ r2.bottom < r1.top)

sectionsOverlap(s1, s2) ==
  LET r1 == Rect(s1)
      r2 == Rect(s2)
  IN ~(r1.right <= r2.left \/ r2.right <= r1.left
        \/ r1.bottom <= r2.top \/ r2.bottom <= r1.top)

\* mutant: Math.max and Math.min swapped, the bounding box instead of the
\* intersection
calculateOverlapAreaSwapped(s1, s2) ==
  LET r1 == Rect(s1)
      r2 == Rect(s2)
      overlapLeft == Min(r1.left, r2.left)
      overlapRight == Max(r1.right, r2.right)
      overlapTop == Min(r1.top, r2.top)
      overlapBottom == Max(r1.bottom, r2.bottom)
      overlapArea == (overlapRight - overlapLeft) * (overlapBottom - overlapTop)
      smallerArea == Min(s1.size.width * s1.size.height, s2.size.width * s2.size.height)
  IN IF overlapRight <= overlapLeft \/ overlapBottom <= overlapTop THEN Zero
     ELSE IF smallerArea > 0 THEN Number(overlapArea * 100, smallerArea) ELSE Zero

\* mutant: the percentage is taken of the first section
calculateOverlapAreaOfFirst(s1, s2) ==
  LET r1 == Rect(s1)
      r2 == Rect(s2)
      overlapLeft == Max(r1.left, r2.left)
      overlapRight == Min(r1.right, r2.right)
      overlapTop == Max(r1.top, r2.top)
      overlapBottom == Min(r1.bottom, r2.bottom)
      overlapArea == (overlapRight - overlapLeft) * (overlapBottom - overlapTop)
      area1 == s1.size.width * s1.size.height
  IN IF overlapRight <= overlapLeft \/ overlapBottom <= overlapTop THEN Zero
     ELSE IF area1 > 0 THEN Number(overlapArea * 100, area1) ELSE Zero

\* mutant: the percentage is taken of the larger section
calculateOverlapAreaOfLarger(s1, s2) ==
  LET r1 == Rect(s1)
      r2 == Rect(s2)
      overlapLeft == Max(r1.left, r2.left)
      overlapRight == Min(r1.right, r2.right)
      overlapTop == Max(r1.top, r2.top)
      overlapBottom == Min(r1.bottom, r2.bottom)
      overlapArea == (overlapRight - overlapLeft) * (overlapBottom - overlapTop)
      largerArea == Max(s1.size.width * s1.size.height, s2.size.width * s2.size.height)
  IN IF overlapRight <= overlapLeft \/ overlapBottom <= overlapTop THEN Zero
     ELSE IF largerArea > 0 THEN Number(overlapArea * 100, largerArea) ELSE Zero

calculateOverlapArea(s1, s2) ==
  LET r1 == Rect(s1)
      r2 == Rect(s2)
      overlapLeft == Max(r1.left, r2.left)
      overlapRight == Min(r1.right, r2.right)
      overlapTop == Max(r1.top, r2.top)
      overlapBottom == Min(r1.bottom, r2.bottom)
      overlapArea == (overlapRight - overlapLeft) * (overlapBottom - overlapTop)
      area1 == s1.size.width * s1.size.height
      area2 == s2.size.width * s2.size.height
      smallerArea == Min(area1, area2)
  IN IF overlapRight <= overlapLeft \/ overlapBottom <= overlapTop THEN Zero
     ELSE IF smallerArea > 0 THEN Number(overlapArea * 100, smallerArea) ELSE Zero

\* the index pairs visited by the double loop, in loop order
RECURSIVE LoopPairs(_, _, _)
LoopPairs(i, j, n) ==
  IF i > n THEN <<>>
  ELSE IF j > n THEN LoopPairs(i + 1, i + 2, n)
  ELSE <<<<i, j>>>> \o LoopPairs(i, j + 1, n)

\* mutant: each found pair is put in front of the list (unshift for push)
detectOverlapsUnshift(t) ==
  LET sections == t.sections
      hits == SelectSeq(LoopPairs(1, 2, Len(sections)),
                        LAMBDA p : sectionsOverlap(sections[p[1]], sections[p[2]]))
      n == Len(hits)
  IN [k \in 1..n |->
        [section1Id |-> sections[hits[n + 1 - k][1]].id,
         section2Id |-> sections[hits[n + 1 - k][2]].id,
         overlapArea |-> calculateOverlapArea(sections[hits[n + 1 - k][1]],
                                              sections[hits[n + 1 - k][2]])]]

detectOverlaps(t) ==
  LET sections == t.sections
      hits == SelectSeq(LoopPairs(1, 2, Len(sections)),
                        LAMBDA p : sectionsOverlap(sections[p[1]], sections[p[2]]))
  IN [k \in 1..Len(hits) |->
        [section1Id |-> sections[hits[k][1]].id,
         section2Id |-> sections[hits[k][2]].id,
         overlapArea |-> calculateOverlapArea(sections[hits[k][1]], sections[hits[k][2]])]]

\* rectangles, in percent: the spec's scenarios, a touching edge, a touching
\* corner, a nested box, zero and negative extent, a half-percent sliver
RectInputs ==
  {<<"r1", 10 * Scale, 10 * Scale, 30 * Scale, 20 * Scale>>,
   <<"r2", 20 * Scale, 15 * Scale, 30 * Scale, 20 * Scale>>,
   <<"r3", 60 * Scale, 60 * Scale, 30 * Scale, 30 * Scale>>,
   <<"r4", 40 * Scale, 10 * Scale, 10 * Scale, 20 * Scale>>,
   <<"r5", 50 * Scale, 35 * Scale, 10 * Scale, 25 * Scale>>,
   <<"r6", 15 * Scale, 15 * Scale, 5 * Scale, 5 * Scale>>,
   <<"r7", 20 * Scale, 12 * Scale, 0, 10 * Scale>>,
   <<"r8", 30 * Scale, 12 * Scale, -10 * Scale, 10 * Scale>>,
   <<"r9", 39 * Scale + 1, 0, 10 * Scale, 50 * Scale>>}

SectionInputs ==
  {createSection(r[1], "notes", r[2], r[3], r[4], r[5], 1) : r \in RectInputs}

\* all lists over S of length at most n
RECURSIVE ListsOf(_, _)
ListsOf(S, n) ==
  IF n = 0 THEN {<<>>}
  ELSE LET shorter == ListsOf(S, n - 1)
       IN shorter \cup
          {Append(l, x) : l \in {y \in shorter : Len(y) = n - 1}, x \in S}

\* generateId never repeats: section ids are pairwise distinct
DistinctIds(l) == \A i, j \in 1..Len(l) : i # j => l[i].id # l[j].id

OverlapInit ==
  /\ opc = "input"
  /\ \E l \in {x \in ListsOf(SectionInputs, MaxSections) : DistinctIds(x)} :
       template = Template("t1", "Mine", "a5", FALSE, l, 0)
  /\ overlaps = <<>>

OverlapIdle ==
  /\ opc = "idle"
  /\ template = Template("t1", "Mine", "a5", FALSE, <<>>, 0)
  /\ overlaps = <<>>

DetectOverlaps ==
  /\ opc = "input"
  /\ overlaps' = detectOverlaps(template)
  /\ opc' = "done"
  /\ UNCHANGED template
  /\ UNCHANGED overlapFrame

OverlapNext == DetectOverlaps


\* -------------------------------------------------------- overflow detector
\* most sections in a template handed to detectOverflow
MaxOverflowSections == 2

\* PRINT_SIZES, width and height in tenths of a millimetre
PRINT_SIZES ==
  [x \in {"card-3x5", "card-4x6", "card-5x7", "letter", "legal", "a4", "a5"} |->
     CASE x = "card-3x5" -> [name |-> "3x5 Card", width |-> 762, height |-> 1270]
       [] x = "card-4x6" -> [name |-> "4x6 Card", width |-> 1016, height |-> 1524]
       [] x = "card-5x7" -> [name |-> "5x7 Card", width |-> 1270, height |-> 1778]
       [] x = "letter" -> [name |-> "Letter", width |-> 2159, height |-> 2794]
       [] x = "legal" -> [name |-> "Legal", width |-> 2159, height |-> 3556]
       [] x = "a4" -> [name |-> "A4", width |-> 2100, height |-> 2970]
       [] x = "a5" -> [name |-> "A5", width |-> 1480, height |-> 2100]]

\* DEFAULT_CONFIG.baseFontSize
baseFontSize == 12

\* A string is the list of the lengths of its lines: "ab\n\ncd" is <<2, 0, 2>>,
\* "" is <<0>>.  An absent (null) string is written <<>> around it: <<>> for
\* null, <<str>> for a value.
EmptyString == <<0>>

RECURSIVE SumSeq(_)
SumSeq(q) == IF q = <<>> THEN 0 ELSE Head(q) + SumSeq(Tail(q))

\* String.prototype.length, the line breaks counted
StringLength(str) == SumSeq(str) + Len(str) - 1

\* String.prototype.split('\n')
SplitLines(str) == str

\* Array.prototype.join('\n')
RECURSIVE Join(_)
Join(strs) ==
  IF strs = <<>> THEN EmptyString
  ELSE IF Len(strs) = 1 THEN strs[1]
  ELSE strs[1] \o Join(Tail(strs))

\* value || ''
OrEmpty(opt) == IF opt = <<>> THEN EmptyString ELSE opt[1]

getSectionContent(type, r) ==
  CASE type = "title" -> r.title
    [] type = "author" -> OrEmpty(r.author)
    [] type = "ingredients" -> Join(r.ingredients)
    [] type = "steps" -> Join(r.steps)
    [] type = "notes" -> OrEmpty(r.notes)
    [] type = "image" -> EmptyString
    [] OTHER -> EmptyString

\* Math.ceil(a / b) for a >= 0, b > 0
CeilDiv(a, b) == (a + b - 1) \div b

\* Percentages of the overflow detector are exact quotients over the common
\* denominator Scale * (card height in tenths of mm).
PercentDen(t) == Scale * PRINT_SIZES[t.size].height

\* (section.style.padding * 2) / template.size.height * 100, as a numerator
paddingPercent(s, t) == s.style.padding * 2 * 1000 * Scale

\* Math.max(1, Math.floor(availableWidthMm / charWidthMm)) with
\* availableWidthMm = availableWidthPercent / 100 * width and
\* charWidthMm = 2.5 * (fontSize / 12)
\* mutant: Math.ceil for Math.floor
charsPerLineCeil(s, t, availableWidthNum) ==
  LET fontSize == IF s.style.fontSize = 0 THEN baseFontSize ELSE s.style.fontSize
  IN Max(1, -((-(availableWidthNum * PRINT_SIZES[t.size].width * 3))
                \div (PercentDen(t) * 625 * fontSize)))

charsPerLine(s, t, availableWidthNum) ==
  LET fontSize == IF s.style.fontSize = 0 THEN baseFontSize ELSE s.style.fontSize
  IN Max(1, (availableWidthNum * PRINT_SIZES[t.size].width * 3)
              \div (PercentDen(t) * 625 * fontSize))

RECURSIVE CountLines(_, _)
CountLines(lines, cpl) ==
  IF lines = <<>> THEN 0
  ELSE (IF Head(lines) = 0 THEN 1 ELSE CeilDiv(Head(lines), cpl))
       + CountLines(Tail(lines), cpl)

\* numerator of the estimated height in percent:
\* totalLines * (fontSize * 0.35 * 1.2) / height * 100
estimateContentHeight(content, s, t, availableWidthNum) ==
  IF StringLength(content) = 0 THEN 0
  ELSE LET fontSize == IF s.style.fontSize = 0 THEN baseFontSize ELSE s.style.fontSize
           totalLines == CountLines(SplitLines(content), charsPerLine(s, t, availableWidthNum))
       IN totalLines * fontSize * 420 * Scale

\* mutant: >= for > in the overflow test
detectSectionOverflowAtLimit(r, s, t) ==
  LET content == getSectionContent(s.type, r)
      availableHeight == s.size.height * PRINT_SIZES[t.size].height - paddingPercent(s, t)
      availableWidth == s.size.width * PRINT_SIZES[t.size].height - paddingPercent(s, t)
      estimatedContentHeight == estimateContentHeight(content, s, t, availableWidth)
      hasOverflow == estimatedContentHeight >= availableHeight
  IN [sectionId |-> s.id, sectionType |-> s.type, hasOverflow |-> hasOverflow,
      estimatedContentHeight |-> Number(estimatedContentHeight, PercentDen(t)),
      availableHeight |-> Number(availableHeight, PercentDen(t)),
      overflowAmount |->
        IF hasOverflow
        THEN Number(estimatedContentHeight - availableHeight, PercentDen(t))
        ELSE Number(0, PercentDen(t))]

detectSectionOverflow(r, s, t) ==
  LET content == getSectionContent(s.type, r)
      availableHeight == s.size.height * PRINT_SIZES[t.size].height - paddingPercent(s, t)
      availableWidth == s.size.width * PRINT_SIZES[t.size].height - paddingPercent(s, t)
      estimatedContentHeight == estimateContentHeight(content, s, t, availableWidth)
      hasOverflow == estimatedContentHeight > availableHeight
  IN [sectionId |-> s.id, sectionType |-> s.type, hasOverflow |-> hasOverflow,
      estimatedContentHeight |-> Number(estimatedContentHeight, PercentDen(t)),
      availableHeight |-> Number(availableHeight, PercentDen(t)),
      overflowAmount |->
        IF hasOverflow
        THEN Number(estimatedContentHeight - availableHeight, PercentDen(t))
        ELSE Number(0, PercentDen(t))]

detectOverflow(r, t) ==
  LET sections == [i \in 1..Len(t.sections) |-> detectSectionOverflow(r, t.sections[i], t)]
      overflowingSections == SelectSeq(sections, LAMBDA x : x.hasOverflow)
  IN [hasOverflow |-> Len(overflowingSections) > 0,
      sections |-> sections,
      overflowingSections |-> overflowingSections]

styled(s, fontSize, padding) ==
  [s EXCEPT !.style = [fontSize |-> fontSize, padding |-> padding]]

\* sections for the overflow run: the spec's scenario, roomy boxes, padding
\* larger than the box, an unset font size, an empty box, a low image box in
\* the default style, a text box narrower than its padding
OverflowSectionInputs ==
  {styled(createSection("o1", "ingredients", 5 * Scale, 20 * Scale, 20 * Scale, 10 * Scale, 1), 10, 2),
   styled(createSection("o2", "title", 5 * Scale, 2 * Scale, 90 * Scale, 10 * Scale, 2), 18, 4),
   styled(createSection("o3", "steps", 50 * Scale, 20 * Scale, 45 * Scale, 55 * Scale, 3), 12, 4),
   styled(createSection("o4", "image", 0, 0, 30 * Scale, 20 * Scale, 4), 12, 4),
   styled(createSection("o5", "notes", 5 * Scale, 78 * Scale, 90 * Scale, 18 * Scale, 5), 0, 0),
   styled(createSection("o6", "author", 5 * Scale, 13 * Scale, 90 * Scale, 5 * Scale, 6), 10, 4),
   styled(createSection("o7", "title", 0, 0, 1, 0, 7), 12, 0),
   styled(createSection("o8", "image", 0, 0, MinSize, MinSize, 8), 12, 40),
   createSection("o9", "image", 10 * Scale, 10 * Scale, 30 * Scale, 5 * Scale, 9),
   createSection("o10", "notes", 0, 0, 2 * Scale, 50 * Scale, 10)}

Lines(n, len) == [i \in 1..n |-> <<len>>]

RecipeInputs ==
  {[title |-> <<12>>, author |-> <<>>, ingredients |-> <<>>, steps |-> <<>>,
    notes |-> <<>>],
   [title |-> <<40>>, author |-> <<<<10>>>>, ingredients |-> Lines(30, 80),
    steps |-> <<<<120>>, <<0>>, <<60>>>>, notes |-> <<<<25, 0, 10>>>>],
   [title |-> EmptyString, author |-> <<EmptyString>>,
    ingredients |-> <<EmptyString, EmptyString>>, steps |-> <<<<8>>>>,
    notes |-> <<<<3>>>>]}

OverflowInit ==
  /\ fpc = "input"
  /\ recipe \in RecipeInputs
  /\ \E l \in {x \in ListsOf(OverflowSectionInputs, MaxOverflowSections) : DistinctIds(x)},
        size \in {"card-3x5", "card-4x6"} :
       template = Template("t1", "Mine", size, FALSE, l, 0)
  /\ overflow = [hasOverflow |-> FALSE, sections |-> <<>>, overflowingSections |-> <<>>]

OverflowIdle ==
  /\ fpc = "idle"
  /\ recipe = [title |-> EmptyString, author |-> <<>>, ingredients |-> <<>>,
               steps |-> <<>>, notes |-> <<>>]
  /\ overflow = [hasOverflow |-> FALSE, sections |-> <<>>, overflowingSections |-> <<>>]

DetectOverflow ==
  /\ fpc = "input"
  /\ overflow' = detectOverflow(recipe, template)
  /\ fpc' = "done"
  /\ UNCHANGED recipe
  /\ UNCHANGED overflowFrame

OverflowNext == DetectOverflow


\* ----------------------------------------------------- template mutation API
\* generateId(): the n-th id handed out
IdPool == <<"g1", "g2", "g3", "g4", "g5", "g6", "g7", "g8">>
generateId(n) == IdPool[n]

\* template.sections.reduce((max, s) => Math.max(max, s.zIndex), 0)
RECURSIVE maxZIndex(_)
maxZIndex(sections) ==
  IF sections = <<>> THEN 0
  ELSE Max(maxZIndex(SubSeq(sections, 1, Len(sections) - 1)),
           sections[Len(sections)].zIndex)

\* position and size are optional: <<>> when the caller leaves them out
addSectionToTemplate(t, type, position, size, id, time) ==
  LET newSection ==
        createSection(id, type,
                      IF position = <<>> THEN 10 * Scale ELSE position[1].x,
                      IF position = <<>> THEN 10 * Scale ELSE position[1].y,
                      IF size = <<>> THEN 30 * Scale ELSE size[1].width,
                      IF size = <<>> THEN 20 * Scale ELSE size[1].height,
                      maxZIndex(t.sections) + 1)
  IN [t EXCEPT !.sections = Append(t.sections, constrainSectionToBoundaries(newSection)),
               !.updatedAt = time]

\* mutant: the merged section is stored without re-clamping
updateSectionUnconstrained(t, sectionId, updates, time) ==
  [t EXCEPT !.sections = [i \in 1..Len(t.sections) |->
                            IF t.sections[i].id = sectionId
                            THEN Spread(t.sections[i], updates)
                            ELSE t.sections[i]],
            !.updatedAt = time]

updateSectionInTemplate(t, sectionId, updates, time) ==
  [t EXCEPT !.sections = [i \in 1..Len(t.sections) |->
                            IF t.sections[i].id = sectionId
                            THEN constrainSectionToBoundaries(Spread(t.sections[i], updates))
                            ELSE t.sections[i]],
            !.updatedAt = time]

removeSectionFromTemplate(t, sectionId, time) ==
  [t EXCEPT !.sections = SelectSeq(t.sections, LAMBDA x : x.id # sectionId),
            !.updatedAt = time]

createBlankTemplate(name, size, id, time) == Template(id, name, size, FALSE, <<>>, time)

\* ------------------------------------------------------------ TemplateEditor
\* ids generateId may hand out in one editor session
MaxGenerated == 1
\* drags (mouse-downs on a section or handle) in one editor session
MaxDrags == 2

DragModes == {"move", "resize-se", "resize-sw", "resize-ne", "resize-nw",
              "resize-n", "resize-s", "resize-e", "resize-w"}

\* pointer travel since mouse-down, in percent of the canvas (pixelToPercent
\* of clientX - startX and clientY - startY over a canvas of positive size)
PointerDeltas ==
  {<<-150 * Scale, -150 * Scale>>, <<-20 * Scale - 1, 30 * Scale + 1>>,
   <<150 * Scale, 150 * Scale>>}

\* Array.prototype.find by id: <<>> when absent
findSection(t, id) ==
  LET hits == SelectSeq(t.sections, LAMBDA x : x.id = id)
  IN IF hits = <<>> THEN <<>> ELSE <<hits[1]>>

handleAddSection(type) ==
  /\ ~template.isDefault
  /\ generated < MaxGenerated
  /\ generated' = generated + 1
  /\ template' = addSectionToTemplate(template, type, <<>>, <<>>,
                                      generateId(generated + 1), now)
  /\ overlaps' = detectOverlaps(template')
  /\ UNCHANGED <<selectedSectionId, dragState, drags, opc>>

handleRemoveSection ==
  /\ ~template.isDefault
  /\ selectedSectionId # <<>>
  /\ findSection(template, selectedSectionId[1]) # <<>>
  /\ template' = removeSectionFromTemplate(template, selectedSectionId[1], now)
  /\ selectedSectionId' = <<>>
  /\ overlaps' = detectOverlaps(template')
  /\ UNCHANGED <<dragState, generated, drags, opc>>

\* mutant: SectionElement starts drags on a default template too
handleSectionMouseDownUnlocked(s, mode) ==
  /\ drags < MaxDrags
  /\ mode # "move" => selectedSectionId = <<s.id>>
  /\ selectedSectionId' = <<s.id>>
  /\ dragState' = <<[sectionId |-> s.id, mode |-> mode,
                     startPosition |-> s.position, startSize |-> s.size]>>
  /\ drags' = drags + 1
  /\ UNCHANGED <<template, overlaps, generated, opc>>

\* the section body starts a move; the resize handles exist on the selected
\* section only
handleSectionMouseDown(s, mode) ==
  /\ ~template.isDefault
  /\ drags < MaxDrags
  /\ mode # "move" => selectedSectionId = <<s.id>>
  /\ selectedSectionId' = <<s.id>>
  /\ dragState' = <<[sectionId |-> s.id, mode |-> mode,
                     startPosition |-> s.position, startSize |-> s.size]>>
  /\ drags' = drags + 1
  /\ UNCHANGED <<template, overlaps, generated, opc>>

DraggedPosition(d, s, deltaX, deltaY) ==
  [x |-> IF d.mode \in {"move", "resize-sw", "resize-nw", "resize-w"}
         THEN d.startPosition.x + deltaX ELSE s.position.x,
   y |-> IF d.mode \in {"move", "resize-ne", "resize-nw", "resize-n"}
         THEN d.startPosition.y + deltaY ELSE s.position.y]

DraggedSize(d, s, deltaX, deltaY) ==
  [width |-> IF d.mode \in {"resize-se", "resize-ne", "resize-e"}
             THEN d.startSize.width + deltaX
             ELSE IF d.mode \in {"resize-sw", "resize-nw", "resize-w"}
             THEN d.startSize.width - deltaX ELSE s.size.width,
   height |-> IF d.mode \in {"resize-se", "resize-sw", "resize-s"}
              THEN d.startSize.height + deltaY
              ELSE IF d.mode \in {"resize-ne", "resize-nw", "resize-n"}
              THEN d.startSize.height - deltaY ELSE s.size.height]

handleMouseMove(deltaX, deltaY) ==
  /\ dragState # <<>>
  /\ LET d == dragState[1]
         found == findSection(template, d.sectionId)
     IN IF found = <<>> THEN template' = template
        ELSE LET s == found[1]
                 updatedSection ==
                   constrainSectionToBoundaries(
                     [s EXCEPT !.position = DraggedPosition(d, s, deltaX, deltaY),
                               !.size = DraggedSize(d, s, deltaX, deltaY)])
             IN template' = updateSectionInTemplate(template, s.id,
                              [position |-> updatedSection.position,
                               size |-> updatedSection.size], now)
  /\ overlaps' = detectOverlaps(template')
  /\ UNCHANGED <<selectedSectionId, dragState, generated, drags, opc>>

handleMouseUp ==
  /\ dragState # <<>>
  /\ dragState' = <<>>
  /\ UNCHANGED <<template, overlaps, selectedSectionId, generated, drags, opc>>

\* onClick of the canvas: setSelectedSectionId(null)
handleCanvasClick ==
  /\ dragState = <<>>
  /\ selectedSectionId # <<>>
  /\ selectedSectionId' = <<>>
  /\ UNCHANGED <<template, overlaps, dragState, generated, drags, opc>>

\* templates the editor is opened on: sections inside the card
EditorTemplateInputs ==
  {createBlankTemplate("New Template", "card-4x6", "t1", 0),
   Template("t2", "Mine", "a5", FALSE,
            <<createSection("a", "title", 5 * Scale, 2 * Scale, 90 * Scale, 10 * Scale, 1),
              createSection("b", "notes", 99 * Scale, 98 * Scale + 1, MinSize, MinSize, 2)>>, 0),
   Template("default-a5", "Default A5", "a5", TRUE,
            <<createSection("a", "title", 5 * Scale, 2 * Scale, 90 * Scale, 10 * Scale, 1)>>, 0)}

EditorInit ==
  /\ template \in EditorTemplateInputs
  /\ overlaps = detectOverlaps(template)
  /\ opc = "idle"
  /\ selectedSectionId = <<>>
  /\ dragState = <<>>
  /\ generated = 0
  /\ drags = 0

EditorIdle ==
  /\ selectedSectionId = <<>>
  /\ dragState = <<>>
  /\ generated = 0
  /\ drags = 0

HandleAddSection ==
  /\ viewMode # "list"
  /\ \E type \in {"title", "image"} : handleAddSection(type)
  /\ UNCHANGED editorFrame

HandleRemoveSection ==
  /\ viewMode # "list"
  /\ handleRemoveSection
  /\ UNCHANGED editorFrame

HandleSectionMouseDown ==
  /\ viewMode # "list"
  /\ \E i \in 1..Len(template.sections), mode \in DragModes :
       handleSectionMouseDown(template.sections[i], mode)
  /\ UNCHANGED editorFrame

HandleMouseMove ==
  /\ viewMode # "list"
  /\ \E delta \in PointerDeltas : handleMouseMove(delta[1], delta[2])
  /\ UNCHANGED editorFrame

HandleMouseUp ==
  /\ viewMode # "list"
  /\ handleMouseUp
  /\ UNCHANGED editorFrame

HandleCanvasClick ==
  /\ viewMode # "list"
  /\ handleCanvasClick
  /\ UNCHANGED editorFrame

EditorNext ==
  \/ HandleAddSection
  \/ HandleRemoveSection
  \/ HandleSectionMouseDown
  \/ HandleMouseMove
  \/ HandleMouseUp
  \/ HandleCanvasClick


\* ------------------------------------- template mutation API on the JS heap
\* Objects live in heap; a reference is an index into it.  A template object
\* holds the reference of its sections array, an array holds the references
\* of its section objects, a section object those of its position, size and
\* style objects.  Every object literal, spread and array literal allocates.

\* mutation calls in one run
MaxCalls == 4

Ref(h, a) == [heap |-> h, ref |-> a]
Alloc(h, obj) == Ref(Append(h, obj), Len(h) + 1)

SectionValue(h, a) ==
  [h[a] EXCEPT !.position = h[@], !.size = h[@], !.style = h[@]]

TemplateValue(h, a) ==
  [h[a] EXCEPT !.sections = [i \in 1..Len(h[@]) |-> SectionValue(h, h[@][i])]]

\* createSection: the position, size and style literals, then the section
createSectionRef(h, v) ==
  LET p == Alloc(h, v.position)
      z == Alloc(p.heap, v.size)
      y == Alloc(z.heap, v.style)
  IN Alloc(y.heap, [v EXCEPT !.position = p.ref, !.size = z.ref, !.style = y.ref])

\* constrainSectionToBoundaries: {...section}, then fresh position and size
\* objects assigned to the copy
constrainSectionToBoundariesRef(h, a) ==
  LET v == constrainSectionToBoundaries(SectionValue(h, a))
      c == Alloc(h, h[a])
      p == Alloc(c.heap, v.position)
      z == Alloc(p.heap, v.size)
  IN Ref([z.heap EXCEPT ![c.ref] = [@ EXCEPT !.position = p.ref, !.size = z.ref]],
         c.ref)

\* mutant: template.sections.push(section) on the caller's array
addSectionToTemplatePush(h, t, type, id, time) ==
  LET sections == h[h[t].sections]
      maxZ == maxZIndex([i \in 1..Len(sections) |-> SectionValue(h, sections[i])])
      n == createSectionRef(h, createSection(id, type, 10 * Scale, 10 * Scale,
                                             30 * Scale, 20 * Scale, maxZ + 1))
      c == constrainSectionToBoundariesRef(n.heap, n.ref)
      pushed == [c.heap EXCEPT ![h[t].sections] = Append(@, c.ref)]
  IN Alloc(pushed, [h[t] EXCEPT !.updatedAt = time])

\* mutant: zIndex from the number of sections, not from their largest zIndex
addSectionToTemplateByCount(h, t, type, id, time) ==
  LET sections == h[h[t].sections]
      n == createSectionRef(h, createSection(id, type, 10 * Scale, 10 * Scale,
                                             30 * Scale, 20 * Scale, Len(sections) + 1))
      c == constrainSectionToBoundariesRef(n.heap, n.ref)
      a == Alloc(c.heap, Append(sections, c.ref))
  IN Alloc(a.heap, [h[t] EXCEPT !.sections = a.ref, !.updatedAt = time])

addSectionToTemplateRef(h, t, type, id, time) ==
  LET sections == h[h[t].sections]
      maxZ == maxZIndex([i \in 1..Len(sections) |-> SectionValue(h, sections[i])])
      n == createSectionRef(h, createSection(id, type, 10 * Scale, 10 * Scale,
                                             30 * Scale, 20 * Scale, maxZ + 1))
      c == constrainSectionToBoundariesRef(n.heap, n.ref)
      a == Alloc(c.heap, Append(sections, c.ref))
  IN Alloc(a.heap, [h[t] EXCEPT !.sections = a.ref, !.updatedAt = time])

\* sections.map(...): the heap and the new array after items i..Len(items)
RECURSIVE MapSectionsRef(_, _, _, _, _, _)
MapSectionsRef(h, items, i, mapped, sectionId, updates) ==
  IF i > Len(items) THEN Ref(h, mapped)
  ELSE IF h[items[i]].id = sectionId
  THEN LET merged == Alloc(h, Spread(h[items[i]], updates))
           c == constrainSectionToBoundariesRef(merged.heap, merged.ref)
       IN MapSectionsRef(c.heap, items, i + 1, Append(mapped, c.ref), sectionId, updates)
  ELSE MapSectionsRef(h, items, i + 1, Append(mapped, items[i]), sectionId, updates)

\* mutant: the id test is missing, every section takes the updates
RECURSIVE MapAllSectionsRef(_, _, _, _, _)
MapAllSectionsRef(h, items, i, mapped, updates) ==
  IF i > Len(items) THEN Ref(h, mapped)
  ELSE LET merged == Alloc(h, Spread(h[items[i]], updates))
           c == constrainSectionToBoundariesRef(merged.heap, merged.ref)
       IN MapAllSectionsRef(c.heap, items, i + 1, Append(mapped, c.ref), updates)

updateEverySectionRef(h, t, sectionId, updates, time) ==
  LET m == MapAllSectionsRef(h, h[h[t].sections], 1, <<>>, updates)
      a == Alloc(m.heap, m.ref)
  IN Alloc(a.heap, [h[t] EXCEPT !.sections = a.ref, !.updatedAt = time])

\* mutant: the merged section is stored as it is, without the re-clamp
RECURSIVE MapSectionsUnclampedRef(_, _, _, _, _, _)
MapSectionsUnclampedRef(h, items, i, mapped, sectionId, updates) ==
  IF i > Len(items) THEN Ref(h, mapped)
  ELSE IF h[items[i]].id = sectionId
  THEN LET merged == Alloc(h, Spread(h[items[i]], updates))
       IN MapSectionsUnclampedRef(merged.heap, items, i + 1, Append(mapped, merged.ref),
                                  sectionId, updates)
  ELSE MapSectionsUnclampedRef(h, items, i + 1, Append(mapped, items[i]), sectionId, updates)

updateSectionUnclampedRef(h, t, sectionId, updates, time) ==
  LET m == MapSectionsUnclampedRef(h, h[h[t].sections], 1, <<>>, sectionId, updates)
      a == Alloc(m.heap, m.ref)
  IN Alloc(a.heap, [h[t] EXCEPT !.sections = a.ref, !.updatedAt = time])

\* updates holds references for position and size, plain values otherwise
updateSectionInTemplateRef(h, t, sectionId, updates, time) ==
  LET m == MapSectionsRef(h, h[h[t].sections], 1, <<>>, sectionId, updates)
      a == Alloc(m.heap, m.ref)
  IN Alloc(a.heap, [h[t] EXCEPT !.sections = a.ref, !.updatedAt = time])

removeSectionFromTemplateRef(h, t, sectionId, time) ==
  LET a == Alloc(h, SelectSeq(h[h[t].sections], LAMBDA x : h[x].id # sectionId))
  IN Alloc(a.heap, [h[t] EXCEPT !.sections = a.ref, !.updatedAt = time])

createBlankTemplateRef(h, name, size, id, time) ==
  LET a == Alloc(h, <<>>)
  IN Alloc(a.heap, [createBlankTemplate(name, size, id, time) EXCEPT !.sections = a.ref])

\* the caller's updates argument: its position and size literals are allocated
\* before the call
updatesRef(h, u) ==
  LET p == IF "position" \in DOMAIN u THEN Alloc(h, u.position) ELSE Ref(h, 0)
      z == IF "size" \in DOMAIN u THEN Alloc(p.heap, u.size) ELSE Ref(p.heap, 0)
  IN Ref(z.heap,
         [f \in DOMAIN u |-> IF f = "position" THEN p.ref
                             ELSE IF f = "size" THEN z.ref ELSE u[f]])

\* Partial<TemplateSection> arguments: nothing, a position off the card, a
\* size below the floor and above the card, both, a zIndex
MutationUpdates ==
  {<<>>,
   [position |-> [x |-> 95 * Scale, y |-> -5 * Scale]],
   [size |-> [width |-> 0, height |-> 150 * Scale]],
   [position |-> [x |-> 100 * Scale, y |-> 50 * Scale + 1],
    size |-> [width |-> 0, height |-> 10 * Scale]],
   [zIndex |-> 7]}

\* ids a caller may name: those handed out so far and one never handed out
KnownIds == {generateId(n) : n \in 1..generated} \cup {"missing"}

MutationInit ==
  /\ LET b == createBlankTemplateRef(<<>>, "New Template", "card-4x6", "t1", 0)
     IN /\ heap = b.heap
        /\ current = b.ref
        /\ input = b.ref
        /\ output = b.ref
  /\ mcall = [op |-> "createBlankTemplate", sectionId |-> "", updates |-> <<>>]
  /\ calls = 0
  /\ generated = 0
  /\ now = 0

MutationIdle ==
  /\ heap = <<>>
  /\ current = 0
  /\ input = 0
  /\ output = 0
  /\ mcall = [op |-> "none", sectionId |-> "", updates |-> <<>>]
  /\ calls = 0

Called(r, op, sectionId, updates) ==
  /\ heap' = r.heap
  /\ input' = current
  /\ output' = r.ref
  /\ current' = r.ref
  /\ mcall' = [op |-> op, sectionId |-> sectionId, updates |-> updates]
  /\ calls' = calls + 1
  /\ now' = now + 1

AddSection ==
  /\ calls < MaxCalls
  /\ \E type \in {"title", "image"} :
       Called(addSectionToTemplateRef(heap, current, type, generateId(generated + 1), now),
              "addSectionToTemplate", generateId(generated + 1), <<>>)
  /\ generated' = generated + 1
  /\ UNCHANGED mutationFrame

UpdateSection ==
  /\ calls < MaxCalls
  /\ \E sectionId \in KnownIds, u \in MutationUpdates :
       LET args == updatesRef(heap, u)
       IN Called(updateSectionInTemplateRef(args.heap, current, sectionId, args.ref, now),
                 "updateSectionInTemplate", sectionId, u)
  /\ UNCHANGED <<generated, mutationFrame>>

RemoveSection ==
  /\ calls < MaxCalls
  /\ \E sectionId \in KnownIds :
       Called(removeSectionFromTemplateRef(heap, current, sectionId, now),
              "removeSectionFromTemplate", sectionId, <<>>)
  /\ UNCHANGED <<generated, mutationFrame>>

MutationNext == AddSection \/ UpdateSection \/ RemoveSection

\* the updates that set position and size only
GeometryUpdates == {u \in MutationUpdates : DOMAIN u \subseteq {"position", "size"}}

\* updateSectionInTemplate called by a caller that moves and resizes only
MoveSection ==
  /\ calls < MaxCalls
  /\ \E sectionId \in KnownIds, u \in GeometryUpdates :
       LET args == updatesRef(heap, u)
       IN Called(updateSectionInTemplateRef(args.heap, current, sectionId, args.ref, now),
                 "updateSectionInTemplate", sectionId, u)
  /\ UNCHANGED <<generated, mutationFrame>>

LayersNext == AddSection \/ MoveSection \/ RemoveSection

\* ------------------------------------------------------ TemplateManagerPage
\* IndexedDB keeps an object store in key order (strings by code unit); these
\* are the template ids of the model in that order.
KeyOrder ==
  <<"default-a4", "default-a5", "default-card-3x5", "default-card-4x6",
    "default-card-5x7", "default-legal", "default-letter", "t1", "t2">>

KeyRank(id) == CHOOSE i \in 1..Len(KeyOrder) : KeyOrder[i] = id

\* IDBObjectStore.put: the record takes the place its key has in the order
StorePut(store, t) ==
  SelectSeq(store, LAMBDA x : KeyRank(x.id) < KeyRank(t.id))
    \o <<t>> \o SelectSeq(store, LAMBDA x : KeyRank(x.id) > KeyRank(t.id))

\* Object.entries(PRINT_SIZES): the keys in the order of the literal
PrintSizeKeys == <<"card-3x5", "card-4x6", "card-5x7", "letter", "legal", "a4", "a5">>

\* mutant: the steps column starts at 40%, inside the ingredients column
createDefaultTemplateStepsAt40(sizeKey, ids, time) ==
  Template("default-" \o sizeKey, "Default " \o PRINT_SIZES[sizeKey].name, sizeKey, TRUE,
    <<styled(createSection(ids[1], "title", 5 * Scale, 2 * Scale, 90 * Scale, 10 * Scale, 1),
             18, defaultSectionStyle.padding),
      styled(createSection(ids[2], "author", 5 * Scale, 13 * Scale, 90 * Scale, 5 * Scale, 2),
             10, defaultSectionStyle.padding),
      createSection(ids[3], "ingredients", 5 * Scale, 20 * Scale, 40 * Scale, 55 * Scale, 3),
      createSection(ids[4], "steps", 40 * Scale, 20 * Scale, 45 * Scale, 55 * Scale, 4),
      styled(createSection(ids[5], "notes", 5 * Scale, 78 * Scale, 90 * Scale, 18 * Scale, 5),
             10, defaultSectionStyle.padding)>>,
    time)

\* ids holds the five ids generateId() returns for the sections
createDefaultTemplate(sizeKey, ids, time) ==
  Template("default-" \o sizeKey, "Default " \o PRINT_SIZES[sizeKey].name, sizeKey, TRUE,
    <<styled(createSection(ids[1], "title", 5 * Scale, 2 * Scale, 90 * Scale, 10 * Scale, 1),
             18, defaultSectionStyle.padding),
      styled(createSection(ids[2], "author", 5 * Scale, 13 * Scale, 90 * Scale, 5 * Scale, 2),
             10, defaultSectionStyle.padding),
      createSection(ids[3], "ingredients", 5 * Scale, 20 * Scale, 40 * Scale, 55 * Scale, 3),
      createSection(ids[4], "steps", 50 * Scale, 20 * Scale, 45 * Scale, 55 * Scale, 4),
      styled(createSection(ids[5], "notes", 5 * Scale, 78 * Scale, 90 * Scale, 18 * Scale, 5),
             10, defaultSectionStyle.padding)>>,
    time)

createDefaultTemplates(time) ==
  [k \in 1..Len(PrintSizeKeys) |->
     createDefaultTemplate(PrintSizeKeys[k],
                           [n \in 1..5 |-> PrintSizeKeys[k] \o "-" \o ToString(n)], time)]

LoadFailed == "Failed to load templates"

\* loadTemplates up to the first await: setLoading(true); setError(null).
\* It runs on mount and from the Retry button shown with an error.
LoadStart ==
  /\ lpc = "mount" \/ (lpc = "done" /\ error # <<>>)
  /\ loading' = TRUE
  /\ error' = <<>>
  /\ lpc' = "list"
  /\ UNCHANGED <<idb, pageTemplates, loadedTemplates, defaults>>
  /\ UNCHANGED pageFrame

\* await storage.listTemplates() resolves with store.getAll()
LoadList ==
  /\ lpc = "list"
  /\ loadedTemplates' = idb
  /\ IF Len(idb) = 0
     THEN /\ defaults' = createDefaultTemplates(now)
          /\ lpc' = "create"
     ELSE /\ lpc' = "set"
          /\ UNCHANGED defaults
  /\ UNCHANGED <<idb, pageTemplates, loading, error>>
  /\ UNCHANGED pageFrame

\* await storage.createTemplate(template): store.add rejects a key that is
\* already there; after the last one loadedTemplates = defaults
LoadCreate ==
  /\ lpc = "create"
  /\ defaults # <<>>
  /\ IF MapHas(idb, Head(defaults).id)
     THEN /\ error' = <<"ConstraintError">>
          /\ lpc' = "finally"
          /\ UNCHANGED <<idb, defaults, loadedTemplates>>
     ELSE /\ idb' = StorePut(idb, Head(defaults))
          /\ defaults' = Tail(defaults)
          /\ IF Tail(defaults) = <<>>
             THEN /\ loadedTemplates' = createDefaultTemplates(now)
                  /\ lpc' = "set"
             ELSE /\ lpc' = "create"
                  /\ UNCHANGED loadedTemplates
          /\ UNCHANGED error
  /\ UNCHANGED <<pageTemplates, loading>>
  /\ UNCHANGED pageFrame

\* a storage request of the call rejects (no database, aborted transaction)
LoadReject ==
  /\ lpc \in {"list", "create"}
  /\ error' = <<LoadFailed>>
  /\ lpc' = "finally"
  /\ UNCHANGED <<idb, pageTemplates, loading, loadedTemplates, defaults>>
  /\ UNCHANGED pageFrame

LoadSet ==
  /\ lpc = "set"
  /\ pageTemplates' = loadedTemplates
  /\ lpc' = "finally"
  /\ UNCHANGED <<idb, loading, error, loadedTemplates, defaults>>
  /\ UNCHANGED pageFrame

LoadFinally ==
  /\ lpc = "finally"
  /\ loading' = FALSE
  /\ lpc' = "done"
  /\ UNCHANGED <<idb, pageTemplates, error, loadedTemplates, defaults>>
  /\ UNCHANGED pageFrame

RECURSIVE PutAll(_, _)
PutAll(store, ts) ==
  IF ts = <<>> THEN store ELSE PutAll(StorePut(store, Head(ts)), Tail(ts))

UserTemplates ==
  {<<>>, <<newTemplate("t1", "Mine", FALSE, 0)>>,
   <<newTemplate("t1", "Mine", FALSE, 0), newTemplate("t2", "Mine", FALSE, 0)>>}

\* what the object store holds when the page mounts: nothing (first run), the
\* defaults, the defaults and user templates, user templates alone (imported
\* before the page was ever opened), the defaults less some
StoredBefore ==
  {PutAll(PutAll(<<>>, SelectSeq(createDefaultTemplates(0), LAMBDA t : t.size \in keep)), u) :
     keep \in {{}, {"a5"}, {"card-3x5", "letter", "legal", "a4", "a5", "card-5x7"},
               {"card-3x5", "card-4x6", "card-5x7", "letter", "legal", "a4", "a5"}},
     u \in UserTemplates}

PageInit ==
  /\ idb \in StoredBefore
  /\ pageTemplates = <<>>
  /\ loading = TRUE
  /\ error = <<>>
  /\ lpc = "mount"
  /\ loadedTemplates = <<>>
  /\ defaults = <<>>

PageIdle ==
  /\ idb = <<>>
  /\ pageTemplates = <<>>
  /\ loading = TRUE
  /\ error = <<>>
  /\ lpc = "idle"
  /\ loadedTemplates = <<>>
  /\ defaults = <<>>

PageNext == LoadStart \/ LoadList \/ LoadCreate \/ LoadReject \/ LoadSet \/ LoadFinally

\* ------------------------------------- TemplateManagerPage: editor and list
\* The page shows the editor (viewMode "edit" or "create") or the list.  The
\* runs start with the editor open and follow the page through the editor's
\* close into the list; a save the storage accepts closes the editor.

\* String.prototype.trim on the names of the model
Trim(name) == IF name \in {"", " "} THEN "" ELSE name

\* values typed into the name field, sizes picked in the size select
NameInputs == {" ", "New Template"}
SizeOptions == {"a5", "card-4x6"}

handleNameChange(value) ==
  /\ ~template.isDefault
  /\ template' = [template EXCEPT !.name = value]
  /\ overlaps' = detectOverlaps(template')
  /\ UNCHANGED <<selectedSectionId, dragState, generated, drags, opc>>

handleSizeChange(key) ==
  /\ ~template.isDefault
  /\ key \in DOMAIN PRINT_SIZES
  /\ template' = [template EXCEPT !.size = key]
  /\ overlaps' = detectOverlaps(template')
  /\ UNCHANGED <<selectedSectionId, dragState, generated, drags, opc>>

\* the editor unmounts: its state is gone, the next one starts afresh
EditorClosed ==
  /\ template' = createBlankTemplate("New Template", "card-4x6", "t1", 0)
  /\ overlaps' = <<>>
  /\ selectedSectionId' = <<>>
  /\ dragState' = <<>>
  /\ generated' = 0
  /\ drags' = 0
  /\ UNCHANGED opc

\* handleSaveTemplate(template) with a storage that accepts the request:
\* createTemplate (store.add) in "create", updateTemplate (store.put of
\* {...existing, ...template, id, updatedAt}) in "edit"; then the list
handleSaveTemplate(t) ==
  /\ IF viewMode = "create"
     THEN /\ ~MapHas(idb, t.id)
          /\ idb' = StorePut(idb, t)
          /\ pageTemplates' = Append(pageTemplates, t)
     ELSE /\ MapHas(idb, t.id)
          /\ LET updated == [Spread(MapGet(idb, t.id), t) EXCEPT !.id = t.id, !.updatedAt = now]
             IN /\ idb' = StorePut(idb, updated)
                /\ pageTemplates' = [i \in 1..Len(pageTemplates) |->
                                       IF pageTemplates[i].id = updated.id
                                       THEN updated ELSE pageTemplates[i]]
  /\ viewMode' = "list"

\* the Save button is disabled on a default template; a blank name stops at
\* the alert
handleSave ==
  /\ ~template.isDefault
  /\ Trim(template.name) # ""
  /\ saved' = <<[template EXCEPT !.updatedAt = now]>>
  /\ handleSaveTemplate([template EXCEPT !.updatedAt = now])
  /\ EditorClosed

handleCancel ==
  /\ viewMode' = "list"
  /\ EditorClosed
  /\ UNCHANGED <<saved, idb, pageTemplates>>

\* handleDeleteTemplate(id): storage.deleteTemplate, then the list without it
handleDeleteTemplate(id) ==
  /\ ~(MapHas(idb, id) /\ MapGet(idb, id).isDefault)
  /\ idb' = MapDelete(idb, id)
  /\ pageTemplates' = SelectSeq(pageTemplates, LAMBDA t : t.id # id)

\* TemplateList.handleDelete with the confirm dialog accepted; TemplateCard
\* renders the button on custom templates only
handleDelete(t) ==
  /\ ~t.isDefault
  /\ deleted' = <<t>>
  /\ handleDeleteTemplate(t.id)

listVars == <<loading, error, lpc, loadedTemplates, defaults>>

HandleNameChange ==
  /\ viewMode # "list"
  /\ \E value \in NameInputs : handleNameChange(value)
  /\ UNCHANGED <<managerVars, pageVars>>
  /\ UNCHANGED managerFrame

HandleSizeChange ==
  /\ viewMode # "list"
  /\ \E key \in SizeOptions : handleSizeChange(key)
  /\ UNCHANGED <<managerVars, pageVars>>
  /\ UNCHANGED managerFrame

HandleSave ==
  /\ viewMode # "list"
  /\ handleSave
  /\ UNCHANGED <<deleted, listVars>>
  /\ UNCHANGED managerFrame

HandleCancel ==
  /\ viewMode # "list"
  /\ handleCancel
  /\ UNCHANGED <<deleted, listVars>>
  /\ UNCHANGED managerFrame

HandleDelete ==
  /\ viewMode = "list"
  /\ \E i \in 1..Len(pageTemplates) : handleDelete(pageTemplates[i])
  /\ UNCHANGED <<viewMode, saved, listVars, overlapVars, editorVars>>
  /\ UNCHANGED managerFrame

\* the templates the page has loaded: a default and a custom one
ManagerTemplates ==
  <<createDefaultTemplate("a5", [n \in 1..5 |-> "a5-" \o ToString(n)], 0),
    newTemplate("t2", "Mine", FALSE, 0)>>

\* the editor just opened on the default template, or on a new blank one
ManagerInit ==
  /\ idb = PutAll(<<>>, ManagerTemplates)
  /\ pageTemplates = idb
  /\ loading = FALSE
  /\ error = <<>>
  /\ lpc = "done"
  /\ loadedTemplates = idb
  /\ defaults = <<>>
  /\ \/ viewMode = "edit" /\ template = ManagerTemplates[1]
     \/ viewMode = "create"
          /\ template = createBlankTemplate("New Template", "card-4x6", "t1", 0)
  /\ overlaps = detectOverlaps(template)
  /\ opc = "idle"
  /\ saved = <<>>
  /\ deleted = <<>>
  /\ EditorIdle

ManagerIdle ==
  /\ viewMode = "list"
  /\ saved = <<>>
  /\ deleted = <<>>

ManagerNext ==
  \/ HandleNameChange
  \/ HandleSizeChange
  \/ HandleSave
  \/ HandleCancel
  \/ HandleDelete
  \/ HandleAddSection
  \/ HandleRemoveSection
  \/ HandleSectionMouseDown
  \/ HandleMouseMove
  \/ HandleMouseUp
  \/ HandleCanvasClick

\* ------------------------------------------------------ collection operations
\* most add / remove calls made on one collection
MaxCollectionCalls == 4

RecipeIds == {"r1", "r2", "r3"}
CollectionNames == {"Soups", "Desserts"}
CollectionDescriptions == {<<>>, <<" ">>, <<"weeknight">>}

\* Array.prototype.includes
Includes(list, x) == \E i \in 1..Len(list) : list[i] = x

createCollection(name, description, id, time) ==
  [id |-> id,
   name |-> Trim(name),
   description |-> IF description = <<>> \/ Trim(description[1]) = ""
                   THEN <<>> ELSE <<Trim(description[1])>>,
   recipeIds |-> <<>>,
   createdAt |-> time,
   updatedAt |-> time]

\* mutant: the includes check is dropped
addRecipeToCollectionUnchecked(c, recipeId, time) ==
  [c EXCEPT !.recipeIds = Append(c.recipeIds, recipeId), !.updatedAt = time]

addRecipeToCollection(c, recipeId, time) ==
  IF Includes(c.recipeIds, recipeId) THEN c
  ELSE [c EXCEPT !.recipeIds = Append(c.recipeIds, recipeId), !.updatedAt = time]

removeRecipeFromCollection(c, recipeId, time) ==
  IF ~Includes(c.recipeIds, recipeId) THEN c
  ELSE [c EXCEPT !.recipeIds = SelectSeq(c.recipeIds, LAMBDA id : id # recipeId),
                 !.updatedAt = time]

CollectionInit ==
  /\ \E name \in CollectionNames, description \in CollectionDescriptions :
       collection = createCollection(name, description, "c1", 0)
  /\ previous = collection
  /\ ccall = [op |-> "createCollection", recipeId |-> ""]
  /\ collectionClock = 0
  /\ collectionCalls = 0

CollectionIdle ==
  /\ collection = createCollection("", <<>>, "", 0)
  /\ previous = collection
  /\ ccall = [op |-> "none", recipeId |-> ""]
  /\ collectionClock = 0
  /\ collectionCalls = 0

AddRecipe ==
  /\ collectionCalls < MaxCollectionCalls
  /\ \E recipeId \in RecipeIds :
       /\ collection' = addRecipeToCollection(collection, recipeId, collectionClock + 1)
       /\ ccall' = [op |-> "addRecipeToCollection", recipeId |-> recipeId]
  /\ previous' = collection
  /\ collectionClock' = collectionClock + 1
  /\ collectionCalls' = collectionCalls + 1
  /\ UNCHANGED collectionFrame

RemoveRecipe ==
  /\ collectionCalls < MaxCollectionCalls
  /\ \E recipeId \in RecipeIds :
       /\ collection' = removeRecipeFromCollection(collection, recipeId, collectionClock + 1)
       /\ ccall' = [op |-> "removeRecipeFromCollection", recipeId |-> recipeId]
  /\ previous' = collection
  /\ collectionClock' = collectionClock + 1
  /\ collectionCalls' = collectionCalls + 1
  /\ UNCHANGED collectionFrame

CollectionNext == AddRecipe \/ RemoveRecipe

\* ------------------------------------- the two storage adapters side by side
\* Every call is made on a LocalStorageAdapter (templates, localStorage,
\* result) and on an IndexedDBStorageAdapter (idb, idbResult) with the same
\* arguments at the same clock reading; both start on empty storage.  The
\* clock stands still over the calls, so both stamp the same updatedAt.

ConstraintError == "ConstraintError"

\* store.add(template): rejects a key that is already in the object store
idbCreateTemplate(t) ==
  IF MapHas(idb, t.id)
  THEN /\ idbResult' = Thrown(ConstraintError)
       /\ UNCHANGED idb
  ELSE /\ idb' = StorePut(idb, t)
       /\ idbResult' = Returned(<<t>>)

\* store.get(id), result || null
idbGetTemplate(id) ==
  /\ idbResult' = Returned(getTemplate(idb, id))
  /\ UNCHANGED idb

idbUpdateTemplate(id, updates) ==
  IF ~MapHas(idb, id)
  THEN /\ idbResult' = Thrown(TemplateNotFound)
       /\ UNCHANGED idb
  ELSE LET updated == [Spread(MapGet(idb, id), updates)
                         EXCEPT !.id = id, !.updatedAt = now]
       IN /\ idb' = StorePut(idb, updated)
          /\ idbResult' = Returned(<<updated>>)

idbDeleteTemplate(id) ==
  IF MapHas(idb, id) /\ MapGet(idb, id).isDefault
  THEN /\ idbResult' = Thrown(CannotDeleteDefault)
       /\ UNCHANGED idb
  ELSE /\ idb' = MapDelete(idb, id)
       /\ idbResult' = Returned(<<>>)

\* store.getAll(): the records in key order
idbListTemplates ==
  /\ idbResult' = Returned(idb)
  /\ UNCHANGED idb

AdaptersInit ==
  /\ StoreInit
  /\ localStorage = <<>>
  /\ idb = <<>>
  /\ idbResult = Returned(<<>>)
  /\ pageTemplates = <<>> /\ loading = TRUE /\ error = <<>> /\ lpc = "idle"
  /\ loadedTemplates = <<>> /\ defaults = <<>>

AdaptersIdle == idbResult = Returned(<<>>)

BothCreateTemplate ==
  /\ \E t \in TemplateInputs : createTemplate(t) /\ idbCreateTemplate(t)
  /\ Remember
  /\ UNCHANGED adaptersFrame

BothGetTemplate ==
  /\ \E id \in TemplateIds : GetTemplate(id) /\ idbGetTemplate(id)
  /\ Remember
  /\ UNCHANGED adaptersFrame

BothUpdateTemplate ==
  /\ \E id \in TemplateIds, u \in UpdateInputs :
       updateTemplate(id, u) /\ idbUpdateTemplate(id, u)
  /\ Remember
  /\ UNCHANGED adaptersFrame

BothDeleteTemplate ==
  /\ \E id \in TemplateIds : deleteTemplate(id) /\ idbDeleteTemplate(id)
  /\ Remember
  /\ UNCHANGED adaptersFrame

BothListTemplates ==
  /\ listTemplates /\ idbListTemplates
  /\ Remember
  /\ UNCHANGED adaptersFrame

AdaptersNext ==
  \/ BothCreateTemplate
  \/ BothGetTemplate
  \/ BothUpdateTemplate
  \/ BothDeleteTemplate
  \/ BothListTemplates

\* ---------------------------------------------------------------- PrintPreview
\* A handler and the effects React runs after it are one step.  A disabled
\* button delivers no click.  The await of the export adapter ends in a
\* second step: the promise resolves or rejects.

\* templates.find(t => t.id === selectedTemplateId) || null
selectedTemplateOf(list, id) ==
  LET hits == SelectSeq(list, LAMBDA t : t.id = id)
  IN IF hits = <<>> THEN <<>> ELSE <<hits[1]>>

selectedTemplate == selectedTemplateOf(previewTemplates, selectedTemplateId)

\* a print size is written by its key in PRINT_SIZES
findSizeKey(size) == IF size \in DOMAIN PRINT_SIZES THEN size ELSE "card-4x6"

\* the two effects, run after a render in which the state is (id, sizeKey):
\* the first template is selected while none is, then overflow is detected
\* on the selected template in the selected size
PreviewEffects(id, sizeKey) ==
  LET first == Len(previewTemplates) > 0 /\ id = ""
      id2 == IF first THEN previewTemplates[1].id ELSE id
      key2 == IF first THEN findSizeKey(previewTemplates[1].size) ELSE sizeKey
      chosen == selectedTemplateOf(previewTemplates, id2)
  IN /\ selectedTemplateId' = id2
     /\ selectedSizeKey' = key2
     /\ overflowResult' =
          IF chosen = <<>> THEN overflowResult
          ELSE <<detectOverflow(previewRecipe,
                                IF key2 \in DOMAIN PRINT_SIZES
                                THEN [chosen[1] EXCEPT !.size = key2] ELSE chosen[1])>>

\* mutant: an overflow disables the export buttons as well
exportDisabledOnOverflow ==
  \/ isExporting
  \/ selectedTemplate = <<>>
  \/ (overflowResult # <<>> /\ overflowResult[1].hasOverflow)

\* disabled={isExporting || !selectedTemplate}
exportDisabled == isExporting \/ selectedTemplate = <<>>

\* values offered by the size select
PreviewSizeOptions == {"card-3x5", "card-5x7", "a5"}

PreviewTemplateInputs ==
  {<<>>,
   <<Template("p1", "Card", "card-3x5", FALSE,
              <<styled(createSection("o1", "ingredients", 5 * Scale, 20 * Scale,
                                     20 * Scale, 10 * Scale, 1), 10, 2)>>, 0),
     Template("p2", "Sheet", "a5", FALSE,
              <<styled(createSection("o3", "steps", 50 * Scale, 20 * Scale,
                                     45 * Scale, 55 * Scale, 3), 12, 4)>>, 0)>>}

PreviewInit ==
  /\ previewTemplates \in PreviewTemplateInputs
  /\ previewRecipe \in RecipeInputs
  /\ selectedTemplateId = ""
  /\ selectedSizeKey = ""
  /\ overflowResult = <<>>
  /\ isExporting = FALSE
  /\ exportError = <<>>
  /\ ppc = "new"

PreviewIdle ==
  /\ previewTemplates = <<>>
  /\ previewRecipe = [title |-> EmptyString, author |-> <<>>, ingredients |-> <<>>,
                      steps |-> <<>>, notes |-> <<>>]
  /\ selectedTemplateId = ""
  /\ selectedSizeKey = ""
  /\ overflowResult = <<>>
  /\ isExporting = FALSE
  /\ exportError = <<>>
  /\ ppc = "closed"

\* the effects of the first render
PreviewMount ==
  /\ ppc = "new"
  /\ PreviewEffects(selectedTemplateId, selectedSizeKey)
  /\ ppc' = "mounted"
  /\ UNCHANGED <<previewTemplates, previewRecipe, isExporting, exportError>>
  /\ UNCHANGED previewFrame

\* handleTemplateChange(templateId), the id of one of the options
HandleTemplateChange ==
  /\ ppc \notin {"closed", "new"}
  /\ \E i \in 1..Len(previewTemplates) :
       PreviewEffects(previewTemplates[i].id, findSizeKey(previewTemplates[i].size))
  /\ UNCHANGED <<previewTemplates, previewRecipe, isExporting, exportError, ppc>>
  /\ UNCHANGED previewFrame

\* handleSizeChange(sizeKey) of PrintPreview
HandlePreviewSizeChange ==
  /\ ppc \notin {"closed", "new"}
  /\ \E sizeKey \in PreviewSizeOptions : PreviewEffects(selectedTemplateId, sizeKey)
  /\ UNCHANGED <<previewTemplates, previewRecipe, isExporting, exportError, ppc>>
  /\ UNCHANGED previewFrame

\* the part of handlePrint, handleExportPDF and handleExportDOCX before the await
StartExport(handler) ==
  /\ ppc = "mounted"
  /\ ~exportDisabled
  /\ selectedTemplate # <<>>
  /\ isExporting' = TRUE
  /\ exportError' = <<>>
  /\ ppc' = handler
  /\ UNCHANGED <<previewTemplates, previewRecipe, selectedTemplateId, selectedSizeKey,
                 overflowResult>>
  /\ UNCHANGED previewFrame

HandlePrint == StartExport("handlePrint")
HandleExportPDF == StartExport("handleExportPDF")
HandleExportDOCX == StartExport("handleExportDOCX")

ExportFailure(handler) ==
  CASE handler = "handlePrint" -> "Failed to generate print document. Please try again."
    [] handler = "handleExportPDF" -> "Failed to export PDF. Please try again."
    [] handler = "handleExportDOCX" -> "Failed to export DOCX. Please try again."

\* the adapter's promise resolves: the finally block
ExportResolve ==
  /\ ppc \in {"handlePrint", "handleExportPDF", "handleExportDOCX"}
  /\ isExporting' = FALSE
  /\ ppc' = "mounted"
  /\ UNCHANGED <<previewTemplates, previewRecipe, selectedTemplateId, selectedSizeKey,
                 overflowResult, exportError>>
  /\ UNCHANGED previewFrame

\* mutant: the handlers have no finally block
ExportRejectNoFinally ==
  /\ ppc \in {"handlePrint", "handleExportPDF", "handleExportDOCX"}
  /\ exportError' = <<ExportFailure(ppc)>>
  /\ ppc' = "mounted"
  /\ UNCHANGED <<previewTemplates, previewRecipe, selectedTemplateId, selectedSizeKey,
                 overflowResult, isExporting>>
  /\ UNCHANGED previewFrame

\* the adapter's promise rejects: the catch block, then the finally block
ExportReject ==
  /\ ppc \in {"handlePrint", "handleExportPDF", "handleExportDOCX"}
  /\ exportError' = <<ExportFailure(ppc)>>
  /\ isExporting' = FALSE
  /\ ppc' = "mounted"
  /\ UNCHANGED <<previewTemplates, previewRecipe, selectedTemplateId, selectedSizeKey,
                 overflowResult>>
  /\ UNCHANGED previewFrame

PreviewNext ==
  \/ PreviewMount
  \/ HandleTemplateChange
  \/ HandlePreviewSizeChange
  \/ HandlePrint
  \/ HandleExportPDF
  \/ HandleExportDOCX
  \/ ExportResolve
  \/ ExportReject

\* ------------------------------------------- the editor beside the preview
\* the editor open on a stored template of one section, or on a blank one
AdvisoryTemplates ==
  <<createDefaultTemplate("a5", [n \in 1..5 |-> "a5-" \o ToString(n)], 0),
    Template("t2", "Mine", "a5", FALSE,
             <<createSection("a", "title", 5 * Scale, 2 * Scale, 90 * Scale, 10 * Scale, 1)>>, 0)>>

AdvisoryInit ==
  /\ idb = PutAll(<<>>, AdvisoryTemplates)
  /\ pageTemplates = idb
  /\ loading = FALSE
  /\ error = <<>>
  /\ lpc = "done"
  /\ loadedTemplates = idb
  /\ defaults = <<>>
  /\ \/ viewMode = "edit" /\ template = AdvisoryTemplates[2]
     \/ viewMode = "create"
          /\ template = createBlankTemplate("New Template", "card-4x6", "t1", 0)
  /\ overlaps = detectOverlaps(template)
  /\ opc = "idle"
  /\ saved = <<>>
  /\ deleted = <<>>
  /\ EditorIdle
  /\ PreviewInit

AdvisoryNext ==
  \/ PreviewNext
  \/ HandleAddSection
  \/ HandleNameChange
  \/ HandleSave

\* --------------------------------- TemplateManagerPage: overlapping loads
\* page instances open at the same time
MaxPages == 2

PageIds == 1..MaxPages

\* useState initial values of one instance, loadTemplates not yet called
MountedPage ==
  [lpc |-> "mount", templates |-> <<>>, loading |-> TRUE, error |-> <<>>,
   loadedTemplates |-> <<>>, defaults |-> <<>>]

\* loadTemplates of instance p up to the first await
RaceStart ==
  /\ \E p \in PageIds :
       /\ pages[p].lpc = "mount"
       /\ pages' = [pages EXCEPT ![p].loading = TRUE, ![p].error = <<>>,
                                 ![p].lpc = "list"]
  /\ UNCHANGED idb
  /\ UNCHANGED raceFrame

\* await storage.listTemplates() of instance p resolves
RaceList ==
  /\ \E p \in PageIds :
       /\ pages[p].lpc = "list"
       /\ pages' = [pages EXCEPT
                      ![p].loadedTemplates = idb,
                      ![p].defaults = IF Len(idb) = 0 THEN createDefaultTemplates(now)
                                      ELSE pages[p].defaults,
                      ![p].lpc = IF Len(idb) = 0 THEN "create" ELSE "set"]
  /\ UNCHANGED idb
  /\ UNCHANGED raceFrame

\* await storage.createTemplate(template) of instance p settles: store.add
\* rejects with ConstraintError when the key is in the store, and the catch
\* block sets the error
RaceCreate ==
  /\ \E p \in PageIds :
       /\ pages[p].lpc = "create"
       /\ pages[p].defaults # <<>>
       /\ IF MapHas(idb, Head(pages[p].defaults).id)
          THEN /\ pages' = [pages EXCEPT ![p].error = <<"ConstraintError">>,
                                         ![p].lpc = "finally"]
               /\ UNCHANGED idb
          ELSE /\ idb' = StorePut(idb, Head(pages[p].defaults))
               /\ pages' = [pages EXCEPT
                    ![p].defaults = Tail(pages[p].defaults),
                    ![p].loadedTemplates =
                       IF Tail(pages[p].defaults) = <<>>
                       THEN createDefaultTemplates(now)
                       ELSE pages[p].loadedTemplates,
                    ![p].lpc = IF Tail(pages[p].defaults) = <<>> THEN "set"
                               ELSE "create"]
  /\ UNCHANGED raceFrame

RaceSet ==
  /\ \E p \in PageIds :
       /\ pages[p].lpc = "set"
       /\ pages' = [pages EXCEPT ![p].templates = pages[p].loadedTemplates,
                                 ![p].lpc = "finally"]
  /\ UNCHANGED idb
  /\ UNCHANGED raceFrame

RaceFinally ==
  /\ \E p \in PageIds :
       /\ pages[p].lpc = "finally"
       /\ pages' = [pages EXCEPT ![p].loading = FALSE, ![p].lpc = "done"]
  /\ UNCHANGED idb
  /\ UNCHANGED raceFrame

RaceInit ==
  /\ idb \in {<<>>, <<newTemplate("t1", "Mine", FALSE, 0)>>}
  /\ pages = [p \in PageIds |-> MountedPage]

RaceIdle == pages = <<>>

RaceNext == RaceStart \/ RaceList \/ RaceCreate \/ RaceSet \/ RaceFinally

\* ---------------------------------------------------------- specifications
InitClamp ==
  /\ ClampInit /\ StoreIdle /\ OverlapIdle /\ OverflowIdle /\ EditorIdle /\ MutationIdle
  /\ PageIdle
  /\ ManagerIdle
  /\ CollectionIdle
  /\ AdaptersIdle
  /\ PreviewIdle
  /\ RaceIdle
SpecClamp == InitClamp /\ [][ClampNext]_vars

InitStore ==
  /\ StoreInit /\ ClampIdle /\ OverlapIdle /\ OverflowIdle /\ EditorIdle /\ MutationIdle
  /\ PageIdle
  /\ ManagerIdle
  /\ CollectionIdle
  /\ AdaptersIdle
  /\ PreviewIdle
  /\ RaceIdle
SpecStore == InitStore /\ [][StoreNext]_vars

InitOverlap ==
  /\ OverlapInit /\ ClampIdle /\ StoreIdle /\ OverflowIdle /\ EditorIdle /\ MutationIdle
  /\ PageIdle
  /\ ManagerIdle
  /\ CollectionIdle
  /\ AdaptersIdle
  /\ PreviewIdle
  /\ RaceIdle
SpecOverlap == InitOverlap /\ [][OverlapNext]_vars

InitOverflow ==
  /\ OverflowInit /\ overlaps = <<>> /\ opc = "idle"
  /\ ClampIdle /\ StoreIdle /\ EditorIdle /\ MutationIdle
  /\ PageIdle
  /\ ManagerIdle
  /\ CollectionIdle
  /\ AdaptersIdle
  /\ PreviewIdle
  /\ RaceIdle
SpecOverflow == InitOverflow /\ [][OverflowNext]_vars

InitEditor ==
  /\ EditorInit /\ ClampIdle /\ StoreIdle /\ OverflowIdle /\ MutationIdle
  /\ PageIdle
  /\ viewMode = "edit" /\ saved = <<>> /\ deleted = <<>>
  /\ CollectionIdle
  /\ AdaptersIdle
  /\ PreviewIdle
  /\ RaceIdle
SpecEditor == InitEditor /\ [][EditorNext]_vars

InitMutation ==
  /\ MutationInit
  /\ templates = <<>> /\ initialized = FALSE /\ localStorage = <<>>
  /\ call = [op |-> "none", id |-> ""] /\ result = Returned(<<>>)
  /\ everDefault = {}
  /\ selectedSectionId = <<>> /\ dragState = <<>> /\ drags = 0
  /\ ClampIdle /\ OverlapIdle /\ OverflowIdle
  /\ PageIdle
  /\ ManagerIdle
  /\ CollectionIdle
  /\ AdaptersIdle
  /\ PreviewIdle
  /\ RaceIdle
SpecMutation == InitMutation /\ [][MutationNext]_vars

InitPage ==
  /\ PageInit
  /\ ClampIdle /\ StoreIdle /\ OverlapIdle /\ OverflowIdle /\ EditorIdle /\ MutationIdle
  /\ ManagerIdle
  /\ CollectionIdle
  /\ AdaptersIdle
  /\ PreviewIdle
  /\ RaceIdle
SpecPage == InitPage /\ [][PageNext]_vars

InitManager ==
  /\ ManagerInit
  /\ ClampIdle /\ StoreIdle /\ OverflowIdle /\ MutationIdle
  /\ CollectionIdle
  /\ AdaptersIdle
  /\ PreviewIdle
  /\ RaceIdle
SpecManager == InitManager /\ [][ManagerNext]_vars

InitCollection ==
  /\ CollectionInit
  /\ ClampIdle /\ StoreIdle /\ OverlapIdle /\ OverflowIdle /\ EditorIdle /\ MutationIdle
  /\ PageIdle
  /\ ManagerIdle
  /\ AdaptersIdle
  /\ PreviewIdle
  /\ RaceIdle
SpecCollection == InitCollection /\ [][CollectionNext]_vars

InitAdapters ==
  /\ AdaptersInit
  /\ ClampIdle /\ OverlapIdle /\ OverflowIdle /\ EditorIdle /\ MutationIdle
  /\ ManagerIdle
  /\ CollectionIdle
  /\ PreviewIdle
  /\ RaceIdle
SpecAdapters == InitAdapters /\ [][AdaptersNext]_vars

InitAdvisory ==
  /\ AdvisoryInit
  /\ ClampIdle /\ StoreIdle /\ OverflowIdle /\ MutationIdle
  /\ CollectionIdle
  /\ AdaptersIdle
  /\ RaceIdle
SpecAdvisory == InitAdvisory /\ [][AdvisoryNext]_vars

SpecLayers == InitMutation /\ [][LayersNext]_vars

InitRace ==
  /\ RaceInit
  /\ pageTemplates = <<>> /\ loading = TRUE /\ error = <<>> /\ lpc = "idle"
  /\ loadedTemplates = <<>> /\ defaults = <<>>
  /\ ClampIdle /\ StoreIdle /\ OverlapIdle /\ OverflowIdle /\ EditorIdle /\ MutationIdle
  /\ ManagerIdle
  /\ CollectionIdle
  /\ AdaptersIdle
  /\ PreviewIdle
SpecRace == InitRace /\ [][RaceNext]_vars

\* PrintPreview alone; the promise an export handler awaits settles
InitPreview ==
  /\ PreviewInit
  /\ ClampIdle /\ StoreIdle /\ OverlapIdle /\ OverflowIdle /\ EditorIdle /\ MutationIdle
  /\ PageIdle
  /\ ManagerIdle
  /\ CollectionIdle
  /\ AdaptersIdle
  /\ RaceIdle
SpecExport ==
  InitPreview /\ [][PreviewNext]_vars /\ WF_vars(ExportResolve \/ ExportReject)

\* ------------------------------------------------------------------ claims
InsideCard(s) ==
  /\ s.position.x >= 0
  /\ s.position.y >= 0
  /\ s.position.x + s.size.width <= Full
  /\ s.position.y + s.size.height <= Full
  /\ s.size.width >= MinSize
  /\ s.size.height >= MinSize

\* C1: every section returned by constrainSectionToBoundaries lies inside the
\* card: x >= 0, y >= 0, x + width <= 100, y + height <= 100, width >= 1 and
\* height >= 1, whatever the input.
C1_ConstrainedInsideCard ==
  cpc \in {"once", "twice"} => InsideCard(constrained)

\* C2: constrainSectionToBoundaries is idempotent: the second application
\* returns the position and size of the first.
C2_ConstrainIdempotent ==
  cpc = "twice" =>
    /\ reconstrained.position = constrained.position
    /\ reconstrained.size = constrained.size

Clamp(v, lo, hi) ==
  LET m == IF v < hi THEN v ELSE hi IN IF m > lo THEN m ELSE lo

\* C7: x' = clamp(x, 0, 100 - width), y' = clamp(y, 0, 100 - height) from the
\* original size, then width' = clamp(width, 1, 100 - x') and
\* height' = clamp(height, 1, 100 - y') from the clamped position; (90,90)
\* sized (30,30) becomes (70,70) sized (30,30).
C7_ClampFormula ==
  cpc \in {"once", "twice"} =>
    /\ constrained.position.x = Clamp(section.position.x, 0, Full - section.size.width)
    /\ constrained.position.y = Clamp(section.position.y, 0, Full - section.size.height)
    /\ constrained.size.width =
         Clamp(section.size.width, MinSize, Full - constrained.position.x)
    /\ constrained.size.height =
         Clamp(section.size.height, MinSize, Full - constrained.position.y)
    /\ (section.position = [x |-> 90 * Scale, y |-> 90 * Scale]
          /\ section.size = [width |-> 30 * Scale, height |-> 30 * Scale])
        => /\ constrained.position = [x |-> 70 * Scale, y |-> 70 * Scale]
           /\ constrained.size = [width |-> 30 * Scale, height |-> 30 * Scale]

C7_Witness ==
  /\ cpc = "once"
  /\ section.position = [x |-> 90 * Scale, y |-> 90 * Scale]
  /\ section.size = [width |-> 30 * Scale, height |-> 30 * Scale]
  /\ constrained.position = [x |-> 70 * Scale, y |-> 70 * Scale]

\* C3: deleteTemplate on a stored default template throws 'Cannot delete
\* default template', leaves the stored templates (the Map and the saved
\* array) exactly as they were, and getTemplate(id) still returns the template.
C3_DeleteDefaultFails ==
  [][(call'.op = "deleteTemplate" /\ MapHas(init, call'.id)
        /\ MapGet(init, call'.id).isDefault)
      => /\ result' = Thrown(CannotDeleteDefault)
         /\ templates' = init
         /\ localStorage' = localStorage
         /\ getTemplate(templates', call'.id) = <<MapGet(init, call'.id)>>]_vars

C3_Witness ==
  /\ call.op = "deleteTemplate"
  /\ result = Thrown(CannotDeleteDefault)
  /\ MapHas(templates, call.id)
  /\ MapGet(templates, call.id).isDefault

Intersect(a, b) ==
  ~(a.position.x + a.size.width <= b.position.x
     \/ b.position.x + b.size.width <= a.position.x
     \/ a.position.y + a.size.height <= b.position.y
     \/ b.position.y + b.size.height <= a.position.y)

Reports(i, j) ==
  \E k \in 1..Len(overlaps) :
    /\ overlaps[k].section1Id = template.sections[i].id
    /\ overlaps[k].section2Id = template.sections[j].id

\* C4: detectOverlaps reports the sections at indices i < j exactly when the
\* intersection test holds for them; nothing is reported reversed and no
\* unordered pair is reported twice.
C4_OverlapsExact ==
  opc = "done" =>
    LET n == Len(template.sections) IN
    /\ \A i, j \in 1..n : i < j =>
          (Reports(i, j) <=> Intersect(template.sections[i], template.sections[j]))
    /\ \A i, j \in 1..n : i >= j => ~Reports(i, j)
    /\ \A k, l \in 1..Len(overlaps) : k # l =>
          {overlaps[k].section1Id, overlaps[k].section2Id}
            # {overlaps[l].section1Id, overlaps[l].section2Id}
    /\ \A k \in 1..Len(overlaps) : \E i, j \in 1..n :
          /\ overlaps[k].section1Id = template.sections[i].id
          /\ overlaps[k].section2Id = template.sections[j].id

\* an overlapping pair, a pair that only touches and a disjoint pair at once
C4_Witness ==
  /\ opc = "done"
  /\ Len(template.sections) = 3
  /\ Len(overlaps) = 1
  /\ \E i, j \in 1..3 :
       /\ i < j
       /\ ~Reports(i, j)
       /\ template.sections[i].position.x + template.sections[i].size.width
            = template.sections[j].position.x

C6_OverflowConsistent ==
  fpc = "done" =>
    /\ overflow.hasOverflow <=> overflow.overflowingSections # <<>>
    /\ overflow.overflowingSections
         = SelectSeq(overflow.sections, LAMBDA x : x.hasOverflow)
    /\ Len(overflow.sections) = Len(template.sections)
    /\ \A k \in 1..Len(overflow.sections) :
         LET x == overflow.sections[k] IN
         /\ x.hasOverflow =>
              /\ x.estimatedContentHeight.num > x.availableHeight.num
              /\ x.estimatedContentHeight.den = x.availableHeight.den
              /\ x.overflowAmount.num > 0
         /\ ~x.hasOverflow => x.overflowAmount.num = 0

\* one section overflows, another does not
C6_Witness ==
  /\ fpc = "done"
  /\ overflow.hasOverflow
  /\ Len(overflow.overflowingSections) = 1
  /\ Len(overflow.sections) = 2

\* C8: in the TemplateEditor, from a template whose sections all lie inside
\* the card, every section still lies inside the card after any sequence of
\* add-section, mouse-down, mouse-move, mouse-up and remove-section events.
C8_EditorSectionsInsideCard ==
  \A i \in 1..Len(template.sections) : InsideCard(template.sections[i])

\* a west-handle drag past the east edge: the dragged x + deltaX leaves the
\* card and the section ends on the size floor inside it
C8_Witness ==
  /\ dragState # <<>>
  /\ dragState[1].mode = "resize-w"
  /\ \E i \in 1..Len(template.sections) :
       /\ template.sections[i].id = dragState[1].sectionId
       /\ template.sections[i].size.width = MinSize
       /\ dragState[1].startSize.width > MinSize
       /\ template.sections[i].position.x > dragState[1].startPosition.x

\* C9: addSectionToTemplate, updateSectionInTemplate and
\* removeSectionFromTemplate never mutate their input: every object that
\* existed before the call (the input template, its sections array, every
\* section and its position, size and style) is unchanged after it, and the
\* returned template is a newly allocated object.
C9_InputNotMutated ==
  [][calls' # calls =>
       /\ Len(heap') > Len(heap)
       /\ \A a \in 1..Len(heap) : heap'[a] = heap[a]
       /\ input' = current
       /\ TemplateValue(heap', input') = TemplateValue(heap, current)
       /\ output' > Len(heap)
       /\ heap'[output'].sections > Len(heap)]_vars

\* an update of a section the input template holds
C9_Witness ==
  /\ mcall.op = "updateSectionInTemplate"
  /\ mcall.updates # <<>>
  /\ \E i \in 1..Len(heap[heap[input].sections]) :
       /\ heap[heap[heap[input].sections][i]].id = mcall.sectionId
       /\ SectionValue(heap, heap[heap[output].sections][i])
            # SectionValue(heap, heap[heap[input].sections][i])

HasSection(h, t, sectionId) ==
  \E i \in 1..Len(h[h[t].sections]) : h[h[h[t].sections][i]].id = sectionId

\* C10: updateSectionInTemplate with an id the template does not hold returns
\* a template (no error: the function has no failing path) whose section list
\* equals the input's element for element, in value and in the section objects
\* it refers to.
C10_UpdateMissingIdKeepsSections ==
  [][(calls' # calls /\ mcall'.op = "updateSectionInTemplate"
        /\ ~HasSection(heap, current, mcall'.sectionId))
      => /\ output' \in 1..Len(heap')
         /\ TemplateValue(heap', output').sections = TemplateValue(heap, current).sections
         /\ heap'[heap'[output'].sections] = heap[heap[current].sections]]_vars

\* a miss on a template that holds sections, with updates that would show
C10_Witness ==
  /\ mcall.op = "updateSectionInTemplate"
  /\ mcall.updates # <<>>
  /\ ~HasSection(heap, input, mcall.sectionId)
  /\ Len(heap[heap[input].sections]) > 0
  /\ Len(heap[heap[output].sections]) = Len(heap[heap[input].sections])

\* the largest zIndex among the sections, 0 when there are none
LargestZIndex(sections) ==
  LET zs == {sections[i].zIndex : i \in 1..Len(sections)} \cup {0}
  IN CHOOSE z \in zs : \A other \in zs : other <= z

C12_ImageNeverOverflows ==
  fpc = "done" =>
    \A k \in 1..Len(overflow.sections) :
      overflow.sections[k].sectionType = "image"
        => /\ ~overflow.sections[k].hasOverflow
           /\ overflow.sections[k].overflowAmount.num = 0

\* C13: once a template with isDefault = true has been stored under an id,
\* every storage state reached afterwards by createTemplate, updateTemplate,
\* deleteTemplate and importAll calls still holds a template with that id.
C13_DefaultNeverDeleted ==
  \A id \in everDefault : MapHas(init, id)

HoldsDefaultFor(store, sizeKey) ==
  \E i \in 1..Len(store) : store[i].isDefault /\ store[i].size = sizeKey

\* C14: whenever loadTemplates of the template manager page finishes without
\* an error, storage and the page's template list hold a default template for
\* each of the 7 entries of PRINT_SIZES, whatever storage held before.
C14_LoadLeavesAllDefaults ==
  (lpc = "done" /\ error = <<>>) =>
    \A sizeKey \in DOMAIN PRINT_SIZES :
      /\ HoldsDefaultFor(idb, sizeKey)
      /\ HoldsDefaultFor(pageTemplates, sizeKey)

\* C15: on a template with isDefault = true no editor event changes the
\* editor's template name, size or sections and onSave is never invoked; the
\* template list never calls onDelete for a default template.
C15_DefaultLocked ==
  [][/\ (viewMode # "list" /\ template.isDefault)
          => /\ saved' = saved
             /\ viewMode' # "list"
                  => /\ template'.name = template.name
                     /\ template'.size = template.size
                     /\ template'.sections = template.sections
     /\ deleted' # deleted => ~deleted'[1].isDefault]_vars

\* the editor closed on the default template without a save, the custom
\* template deleted from the list, the default still listed and stored
C15_Witness ==
  /\ viewMode = "list"
  /\ saved = <<>>
  /\ deleted # <<>>
  /\ \E i \in 1..Len(pageTemplates) :
       pageTemplates[i] = ManagerTemplates[1] /\ MapHas(idb, pageTemplates[i].id)

SectionById(id) ==
  template.sections[CHOOSE i \in 1..Len(template.sections) : template.sections[i].id = id]

IntersectionArea(a, b) ==
  Max(0, (Min(a.position.x + a.size.width, b.position.x + b.size.width)
            - Max(a.position.x, b.position.x))
         * (Min(a.position.y + a.size.height, b.position.y + b.size.height)
              - Max(a.position.y, b.position.y)))

SmallerArea(a, b) == Min(a.size.width * a.size.height, b.size.width * b.size.height)

\* C16: for every pair detectOverlaps reports, overlapArea is
\* 100 * (intersection area) / min(area1, area2), the intersection area being
\* the product of the two extents clamped to >= 0 and area_k = width_k *
\* height_k; it is 0 when min(area1, area2) is 0.
C16_OverlapAreaOfSmaller ==
  opc = "done" =>
    \A k \in 1..Len(overlaps) :
      LET a == SectionById(overlaps[k].section1Id)
          b == SectionById(overlaps[k].section2Id)
          reported == overlaps[k].overlapArea
      IN /\ reported.den # 0
         /\ IF SmallerArea(a, b) = 0 THEN reported.num = 0
            ELSE reported.num * SmallerArea(a, b)
                   = 100 * IntersectionArea(a, b) * reported.den

\* one reported pair of unequal areas that overlaps in part, and one reported
\* pair whose smaller section has no area
C16_Witness ==
  /\ opc = "done"
  /\ \E k \in 1..Len(overlaps) :
       LET a == SectionById(overlaps[k].section1Id)
           b == SectionById(overlaps[k].section2Id)
       IN /\ a.size.width * a.size.height # b.size.width * b.size.height
          /\ overlaps[k].overlapArea.num > 0
          /\ overlaps[k].overlapArea.num < 100 * overlaps[k].overlapArea.den
  /\ \E k \in 1..Len(overlaps) :
       SmallerArea(SectionById(overlaps[k].section1Id),
                   SectionById(overlaps[k].section2Id)) = 0

IndexOfSection(id) ==
  CHOOSE i \in 1..Len(template.sections) : template.sections[i].id = id

\* C17: detectOverlaps returns the pairs in double-loop order: by the index i
\* of the first section ascending, then by the index j > i of the second
\* section ascending; section1Id is the id of the section that comes earlier
\* in template.sections.
C17_OverlapsInLoopOrder ==
  opc = "done" =>
    /\ \A k \in 1..Len(overlaps) :
         IndexOfSection(overlaps[k].section1Id) < IndexOfSection(overlaps[k].section2Id)
    /\ \A k, l \in 1..Len(overlaps) : k < l =>
         LET i1 == IndexOfSection(overlaps[k].section1Id)
             j1 == IndexOfSection(overlaps[k].section2Id)
             i2 == IndexOfSection(overlaps[l].section1Id)
             j2 == IndexOfSection(overlaps[l].section2Id)
         IN i1 < i2 \/ (i1 = i2 /\ j1 < j2)

\* three sections that overlap one another: the pairs (1,2), (1,3), (2,3)
C17_Witness ==
  /\ opc = "done"
  /\ Len(template.sections) = 3
  /\ Len(overlaps) = 3
  /\ IndexOfSection(overlaps[1].section2Id) = 2
  /\ IndexOfSection(overlaps[2].section1Id) = 1
  /\ IndexOfSection(overlaps[3].section1Id) = 2

\* C18: from a collection made by createCollection, after any sequence of
\* addRecipeToCollection and removeRecipeFromCollection calls every recipe id
\* occurs at most once in recipeIds; adding an id already present returns the
\* collection unchanged; after removing an id it is no longer present.
C18_NoDuplicateRecipeIds ==
  /\ \A i, j \in 1..Len(collection.recipeIds) :
       i # j => collection.recipeIds[i] # collection.recipeIds[j]
  /\ (ccall.op = "addRecipeToCollection" /\ Includes(previous.recipeIds, ccall.recipeId))
       => collection = previous
  /\ ccall.op = "removeRecipeFromCollection"
       => ~Includes(collection.recipeIds, ccall.recipeId)

\* an id added a second time to a collection that lost another id before
C18_Witness ==
  /\ ccall.op = "addRecipeToCollection"
  /\ Includes(previous.recipeIds, ccall.recipeId)
  /\ Len(collection.recipeIds) = 2
  /\ collection.updatedAt < collectionClock
  /\ collectionCalls = MaxCollectionCalls

Stored(m) == {m[i] : i \in 1..Len(m)}

\* C19: for every sequence of createTemplate, getTemplate, updateTemplate,
\* deleteTemplate and listTemplates calls made on a LocalStorageAdapter and on
\* an IndexedDBStorageAdapter, each call has the same outcome in both (the
\* same value, or an error in both) and both hold the same set of templates.
C19_AdaptersAgree ==
  /\ result.kind = idbResult.kind
  /\ result.kind = "value" => result.value = idbResult.value
  /\ Stored(init) = Stored(idb)

\* C20: overlap and overflow are advisory only.  In PrintPreview the Print,
\* Export PDF and Export DOCX actions are enabled exactly when a template is
\* selected and no export is in progress, whatever the overflow result; in
\* TemplateEditor saving a non-default template with a non-blank name is never
\* blocked by detected overlaps.
C20_WarningsNeverBlock ==
  /\ (ENABLED HandlePrint) <=> (selectedTemplate # <<>> /\ ~isExporting)
  /\ (ENABLED HandleExportPDF) <=> (selectedTemplate # <<>> /\ ~isExporting)
  /\ (ENABLED HandleExportDOCX) <=> (selectedTemplate # <<>> /\ ~isExporting)
  /\ (viewMode # "list" /\ ~template.isDefault /\ Trim(template.name) # "")
       => ENABLED HandleSave

\* an export running on a template whose content overflows, after the editor
\* saved a template with overlapping sections
C20_Witness ==
  /\ isExporting
  /\ overflowResult # <<>>
  /\ overflowResult[1].hasOverflow
  /\ saved # <<>>
  /\ detectOverlaps(saved[1]) # <<>>

\* the half-open rectangles [x, x + width) x [y, y + height) share a point
HalfOpenMeet(a, b) ==
  /\ a.size.width > 0 /\ a.size.height > 0
  /\ b.size.width > 0 /\ b.size.height > 0
  /\ Max(a.position.x, b.position.x)
       < Min(a.position.x + a.size.width, b.position.x + b.size.width)
  /\ Max(a.position.y, b.position.y)
       < Min(a.position.y + a.size.height, b.position.y + b.size.height)

C22_UpdateTouchesOneSection ==
  [][(calls' # calls /\ mcall'.op = "updateSectionInTemplate"
        /\ HasSection(heap, current, mcall'.sectionId))
      => LET old == TemplateValue(heap, current)
             new == TemplateValue(heap', output')
         IN /\ Len(new.sections) = Len(old.sections)
            /\ \A i \in 1..Len(old.sections) :
                 new.sections[i] =
                   IF old.sections[i].id = mcall'.sectionId
                   THEN constrainSectionToBoundaries(Spread(old.sections[i], mcall'.updates))
                   ELSE old.sections[i]
            /\ new.id = old.id /\ new.name = old.name /\ new.size = old.size
            /\ new.isDefault = old.isDefault /\ new.margins = old.margins
            /\ new.createdAt = old.createdAt]_vars

\* an update that hits the second of two sections and that the clamp alters
C22_Witness ==
  /\ mcall.op = "updateSectionInTemplate"
  /\ HasSection(heap, input, mcall.sectionId)
  /\ LET old == TemplateValue(heap, input).sections
         new == TemplateValue(heap, output).sections
     IN /\ Len(old) = 2
        /\ old[2].id = mcall.sectionId
        /\ new[1] = old[1]
        /\ new[2] # old[2]
        /\ new[2] # Spread(old[2], mcall.updates)

\* availableWidthMm / charWidthMm as the exact quotient num / den:
\* (width% - padding * 2 / cardHeight * 100) / 100 * cardWidth
\*   / (avgCharWidthMm * fontSize / baseFontSize)
WidthInChars(s, t) ==
  LET fontSize == IF s.style.fontSize = 0 THEN 12 ELSE s.style.fontSize
      H == PRINT_SIZES[t.size].height
      W == PRINT_SIZES[t.size].width
  IN [num |-> (s.size.width * H - 2000 * s.style.padding * Scale) * W * 3,
      den |-> Scale * H * 625 * fontSize]

\* how many times den fits into num, by repeated subtraction
RECURSIVE TimesIn(_, _)
TimesIn(num, den) == IF num < den THEN 0 ELSE 1 + TimesIn(num - den, den)

\* floor(q), but never below 1
FloorAtLeastOne(q) == IF q.num < q.den THEN 1 ELSE TimesIn(q.num, q.den)

\* ceil(len / cpl) for len > 0: rows of cpl characters until none is left
RECURSIVE RowsFor(_, _)
RowsFor(len, cpl) == IF len <= 0 THEN 0 ELSE 1 + RowsFor(len - cpl, cpl)

RECURSIVE ExpectedLines(_, _)
ExpectedLines(lines, cpl) ==
  IF lines = <<>> THEN 0
  ELSE (IF Head(lines) = 0 THEN 1 ELSE RowsFor(Head(lines), cpl))
       + ExpectedLines(Tail(lines), cpl)

\* C23: characters-per-line is floor(availableWidthMm / charWidthMm) but never
\* below 1, also when padding leaves zero or negative width; for non-empty
\* content the line count is the sum over the newline-separated lines of
\* ceil(lineLength / charsPerLine), an empty line counting as exactly 1; for
\* empty content the estimated height is exactly 0.  The line count is read
\* off the estimated height: lines * fontSize * 0.35 * 1.2 mm of the card
\* height, in percent.
C23_LineEstimate ==
  fpc = "done" =>
    \A i \in 1..Len(template.sections) :
      LET s == template.sections[i]
          x == overflow.sections[i]
          content == getSectionContent(s.type, recipe)
          fontSize == IF s.style.fontSize = 0 THEN 12 ELSE s.style.fontSize
          cpl == FloorAtLeastOne(WidthInChars(s, template))
      IN /\ x.sectionId = s.id
         /\ IF StringLength(content) = 0
            THEN x.estimatedContentHeight.num = 0
            ELSE /\ x.estimatedContentHeight.den % PRINT_SIZES[template.size].height = 0
                 /\ x.estimatedContentHeight.num
                      = ExpectedLines(content, cpl) * fontSize * 420
                          * (x.estimatedContentHeight.den
                               \div PRINT_SIZES[template.size].height)

\* a text box narrower than its padding holding a text with an empty line,
\* beside a box wide enough for several characters whose text needs a second
\* row on one line
C23_Witness ==
  /\ fpc = "done"
  /\ \E i \in 1..Len(template.sections) :
       LET s == template.sections[i]
           content == getSectionContent(s.type, recipe)
       IN /\ WidthInChars(s, template).num < 0
          /\ \E l \in 1..Len(content) : content[l] = 0
          /\ \E l \in 1..Len(content) : content[l] > 1
          /\ overflow.sections[i].estimatedContentHeight.num > 0
  /\ \E i \in 1..Len(template.sections) :
       LET s == template.sections[i]
           content == getSectionContent(s.type, recipe)
           cpl == FloorAtLeastOne(WidthInChars(s, template))
       IN /\ cpl > 1
          /\ \E l \in 1..Len(content) : content[l] > cpl /\ content[l] % cpl # 0

\* the orders in which the sections of l can be listed
Reorderings(l) ==
  {[i \in 1..Len(l) |-> l[p[i]]] :
     p \in {q \in [1..Len(l) -> 1..Len(l)] : \A i, j \in 1..Len(l) : i # j => q[i] # q[j]}}

\* the reported pairs without their order, each with its overlapArea
UnorderedReports(ovs) ==
  {[pair |-> {ovs[k].section1Id, ovs[k].section2Id}, overlapArea |-> ovs[k].overlapArea] :
     k \in 1..Len(ovs)}

\* C24: overlap detection is symmetric in the order of the sections: listing
\* template.sections in any other order changes neither the set of unordered
\* pairs detectOverlaps reports nor their overlapArea, and no pair is reported
\* twice.
C24_OrderIndependent ==
  opc = "done" =>
    \A l \in Reorderings(template.sections) :
      LET other == detectOverlaps([template EXCEPT !.sections = l])
      IN /\ UnorderedReports(other) = UnorderedReports(overlaps)
         /\ Len(other) = Len(overlaps)
         /\ Cardinality({r.pair : r \in UnorderedReports(other)}) = Len(other)

\* three sections in an order that is not the only one, two reported pairs at
\* least, one of them a partial overlap of sections of unequal area
C24_Witness ==
  /\ opc = "done"
  /\ Len(template.sections) = 3
  /\ Len(overlaps) >= 2
  /\ \E k \in 1..Len(overlaps) :
       LET a == SectionById(overlaps[k].section1Id)
           b == SectionById(overlaps[k].section2Id)
       IN /\ a.size.width * a.size.height < b.size.width * b.size.height
          /\ overlaps[k].overlapArea.num > 0
          /\ overlaps[k].overlapArea.num < 100 * overlaps[k].overlapArea.den

\* C25: in every template reached from createBlankTemplate by
\* addSectionToTemplate, removeSectionFromTemplate and position/size-only
\* updateSectionInTemplate calls, the sections have pairwise distinct zIndex
\* values, and a newly added section's zIndex is strictly greater than that
\* of every section already present.
C25_DistinctZIndex ==
  [][calls' # calls =>
       LET before == TemplateValue(heap, current).sections
           after == TemplateValue(heap', output').sections
       IN /\ \A i, j \in 1..Len(after) : i # j => after[i].zIndex # after[j].zIndex
          /\ mcall'.op = "addSectionToTemplate"
               => \A i \in 1..Len(before) : after[Len(after)].zIndex > before[i].zIndex]_vars

\* a section added after an earlier one was removed and another was moved:
\* its zIndex is not its place in the list
C25_Witness ==
  /\ mcall.op = "addSectionToTemplate"
  /\ calls = MaxCalls
  /\ LET before == TemplateValue(heap, input).sections
         after == TemplateValue(heap, output).sections
     IN /\ Len(before) = 1
        /\ before[1].zIndex = 2
        /\ after[2].zIndex = 3

SizeOnlyModes == {"resize-e", "resize-s", "resize-se"}

ListedEmpty(p) ==
  pages[p].loadedTemplates \in {<<>>, createDefaultTemplates(now)}

\* C28: when two runs of loadTemplates have both listed an empty store before
\* either created a default, then once both have finished the store holds
\* exactly one default template per PRINT_SIZES entry and neither run has
\* set the error state.
C28_OverlappingLoadsSucceed ==
  (/\ \A p \in {1, 2} : pages[p].lpc = "done"
   /\ \A p \in {1, 2} : ListedEmpty(p))
    => /\ Len(idb) = Len(PrintSizeKeys)
       /\ \A k \in 1..Len(PrintSizeKeys) :
            \E i \in 1..Len(idb) : /\ idb[i].id = "default-" \o PrintSizeKeys[k]
                                   /\ idb[i].isDefault
       /\ \A p \in {1, 2} : pages[p].error = <<>>

\* C29: every template createDefaultTemplates returns is a default with id
\* "default-<size key>", all its sections pass validateSectionBoundaries and
\* detectOverlaps finds no overlapping pair in it.
C29_DefaultsAreClean ==
  \A i \in 1..Len(defaults) :
    LET t == defaults[i]
    IN /\ t.isDefault
       /\ t.size \in DOMAIN PRINT_SIZES
       /\ t.id = "default-" \o t.size
       /\ \A n \in 1..Len(t.sections) : validateSectionBoundaries(t.sections[n])
       /\ detectOverlaps(t) = <<>>

\* loadTemplates holds the seven templates createDefaultTemplates returned,
\* one per size key in the order of PRINT_SIZES, five sections each
C29_Witness ==
  /\ lpc = "create"
  /\ Len(defaults) = Len(PrintSizeKeys)
  /\ \A k \in 1..Len(PrintSizeKeys) :
       /\ defaults[k].id = "default-" \o PrintSizeKeys[k]
       /\ Len(defaults[k].sections) = 5
       /\ detectOverlaps(defaults[k]) = <<>>

ExportHandlers == {"handlePrint", "handleExportPDF", "handleExportDOCX"}

\* C30: a Print, Export PDF or Export DOCX action that starts sets isExporting
\* and clears exportError; isExporting is eventually reset to false, whether
\* the adapter call succeeds or fails; a failed call leaves a non-null
\* exportError.
C30_ExportAlwaysSettles ==
  /\ [][(ppc = "mounted" /\ ppc' \in ExportHandlers)
          => (isExporting' /\ exportError' = <<>>)]_vars
  /\ isExporting ~> ~isExporting
  /\ [][(ppc \in ExportHandlers /\ ppc' = "mounted") => ~isExporting']_vars
  /\ [][ExportReject => exportError' # <<>>]_vars

\* a DOCX export has failed and the preview is idle again with its message
C30_Witness ==
  /\ ppc = "mounted"
  /\ ~isExporting
  /\ exportError = <<ExportFailure("handleExportDOCX")>>

====
